---- MODULE Spec2Model ----
(***************************************************************************)
(* Loan grid: the store composable (useLoanStore), the filter and sort     *)
(* utilities it composes, and Vue's computed() memoisation of the view.    *)
(*                                                                         *)
(* Strings are sequences of UTF-16 code units, so that toLowerCase(), the  *)
(* relational operators on strings and includes() are computed, not        *)
(* assumed.  An optional value (undefined / null or a value) is the empty  *)
(* sequence or a one-element sequence.                                     *)
(***************************************************************************)
EXTENDS Integers, Sequences, FiniteSets, TLC

VARIABLES
    allLoans,        \* useLoanStore.ts:7   shallowRef<Loan[]>
    loadedLoans,     \* useLoanStore.ts:8   shallowRef<Loan[]>
    isLoading,       \* useLoanStore.ts:9
    error,           \* useLoanStore.ts:10  None (null) or Some(message)
    sortState,       \* useLoanStore.ts:13
    filterState,     \* useLoanStore.ts:18
    paginationState, \* useLoanStore.ts:27
    resultCache,     \* useLoanStore.ts:35  Map<string, Loan[]>
    computedView,    \* useLoanStore.ts:39  the computed(): its memoised value, dirty flag, deps
    pending,         \* useLoanStore.ts:76  loadInitialData calls suspended at an await
    loads,           \* history: loadInitialData calls made so far
    failures,        \* history: loadInitialData calls that ended in the catch block
    slate,           \* history: the store as it was when the first call of a run of
                     \* loadInitialData calls with nothing else between them started
    last,            \* history: the store operation that completed last
    calls,           \* history: Some(loadNextPage calls since the pagination was reset
                     \* on the current view), None when it did not start from a reset
    trace,           \* history: what the store action that ran last did to the cache
                     \* and the pagination counters, in the order it did it
    sortArgs,        \* part_000:28  arguments of a sortLoans call
    sortResult,      \* part_000:37  its result
    sortAgain,       \* part_000:37  the result of sorting that result again
    sortHeap,        \* part_000:28  the arrays of a sortLoans call: the caller's and the copy
    filterCall,      \* part_000:61  a filterLoans call: its arguments and results
    rangeCall,       \* part_000:131 a calculateVisibleRange call: its arguments and results
    debounced,       \* part_000:3   a function returned by debounce: its closure and timer
    throttled,       \* part_000:14  a function returned by throttle: its closure and timer
    scroller,        \* part_001:363 VirtualTable's scroll handling, with useVirtualScroll
    panel,           \* part_002:22  a LoanFilters instance and the v-model of its parent
    header,          \* LoanTableHeader.vue:81  a LoanTableHeader instance and its parent
    keyed,           \* part_000:126 two filter and sort states, for their cache keys
    row              \* part_001:40  a LoanTableRow instance and the events it emitted

vars == <<allLoans, loadedLoans, isLoading, error, sortState, filterState,
          paginationState, resultCache, computedView, pending, loads, failures,
          slate, last, calls, trace, sortArgs, sortResult, sortAgain, sortHeap, filterCall,
          rangeCall, debounced, throttled, scroller, panel, header, keyed, row>>

storeVars == <<allLoans, loadedLoans, isLoading, error, sortState, filterState,
               paginationState, resultCache, computedView, pending, loads, failures,
               slate, last, calls, trace>>

sortVars == <<sortArgs, sortResult, sortAgain, sortHeap>>

uiVars == <<debounced, throttled, scroller, panel, header, keyed, row>>

utilVars == <<filterCall, rangeCall, uiVars>>

-----------------------------------------------------------------------------
(* Bounds of the model *)

\* loadInitialData calls in one run, all of which may be in flight together
MaxLoads == 2

\* longest record list handed to sortLoans in SortSpec
MaxLen == 3

\* the history counter `calls` stops counting here
MaxCalls == 3

\* a page size small enough for the model's datasets to span several pages
SmallPageSize == 2

\* largest scroll offset, viewport height, row height and number of loaded
\* rows handed to calculateVisibleRange in RangeSpec, in a common length unit
MaxScrollTop == 12

MaxContainerHeight == 4

MaxItemHeight == 3

MaxTotalItems == 6

\* the amount bounds a user steps through in CacheSpec, one criteria change each
MaxAmountSteps == 102

\* calls of a debounced function that may follow each other while its timer is pending
MaxBurst == 3

\* calls of a throttled function in one run
MaxThrottleCalls == 4

\* rows of the dataset the table is loaded with in TableSpec
MaxTableRows == 14

\* select events kept in the log of RowSpec
MaxRowEvents == 2

-----------------------------------------------------------------------------
(* Values *)

None == <<>>

Some(v) == <<v>>

Min(a, b) == IF a <= b THEN a ELSE b

Max(a, b) == IF a >= b THEN a ELSE b

\* Math.ceil(a / b) for a >= 0, b > 0
Ceil(a, b) == (a + b - 1) \div b

\* Array.prototype.slice(start, end) with both indices >= 0
slice(s, start, end) ==
    IF start >= Min(end, Len(s)) THEN <<>>
    ELSE SubSeq(s, start + 1, Min(end, Len(s)))

Range(s) == {s[i] : i \in DOMAIN s}

(* String literals, as code units *)
StrEmpty == <<>>
StrApproved == <<65, 112, 112, 114, 111, 118, 101, 100>>
StrPending == <<80, 101, 110, 100, 105, 110, 103>>
StrRejected == <<82, 101, 106, 101, 99, 116, 101, 100>>
StrAll == <<65, 108, 108>>
StrBob == <<66, 111, 98>>
Strbob == <<98, 111, 98>>
StrAl == <<65, 108>>
Stral == <<97, 108>>
StrCy == <<67, 121>>
StrDee == <<68, 101, 101>>
StrBO == <<66, 79>>
Strzz == <<122, 122>>
Date0101 == <<50, 48, 50, 52, 45, 48, 49, 45, 48, 49>>
Date0102 == <<50, 48, 50, 52, 45, 48, 49, 45, 48, 50>>
Date0103 == <<50, 48, 50, 52, 45, 48, 49, 45, 48, 51>>
Date0201 == <<50, 48, 50, 52, 45, 48, 50, 45, 48, 49>>

\* String.prototype.toLowerCase on the ASCII range
toLowerCase(s) == [i \in DOMAIN s |-> IF s[i] \in 65..90 THEN s[i] + 32 ELSE s[i]]

\* s < t on strings: lexicographic by code unit, a proper prefix being smaller
StrLess(s, t) ==
    \E i \in 1..(Min(Len(s), Len(t)) + 1) :
        /\ \A j \in 1..(i - 1) : s[j] = t[j]
        /\ \/ i > Len(s) /\ i <= Len(t)
           \/ i <= Len(s) /\ i <= Len(t) /\ s[i] < t[i]

\* String.prototype.includes
includes(s, sub) ==
    \E i \in 0..(Len(s) - Len(sub)) : \A j \in 1..Len(sub) : s[i + j] = sub[j]

Loan(id, borrowerName, amount, status, closeDate) ==
    [id |-> id, borrowerName |-> borrowerName, amount |-> amount,
     status |-> status, closeDate |-> closeDate]

\* keyof Loan, the sortable columns
Columns == {"id", "borrowerName", "amount", "status", "closeDate"}

\* typeof loan[column] === 'string'
IsStringColumn(column) == column \in {"borrowerName", "status", "closeDate"}

Directions == {"asc", "desc", "none"}

-----------------------------------------------------------------------------
(* sortLoans *)

\* the relational comparison of two column values after the lower-casing of strings
ValLess(aVal, bVal, column) ==
    IF IsStringColumn(column)
    THEN StrLess(toLowerCase(aVal), toLowerCase(bVal))
    ELSE aVal < bVal

compareNoTieBreak(a, b, column, direction) ==
    LET result == IF ValLess(a[column], b[column], column) THEN -1
                  ELSE IF ValLess(b[column], a[column], column) THEN 1
                  ELSE 0
    IN  IF direction = "desc" THEN -result ELSE result

compareNoLowerCase(a, b, column, direction) ==
    LET less(x, y) == IF IsStringColumn(column) THEN StrLess(x, y) ELSE x < y
        result == IF less(a[column], b[column]) THEN -1
                  ELSE IF less(b[column], a[column]) THEN 1
                  ELSE a.id - b.id
    IN  IF direction = "desc" THEN -result ELSE result

\* the comparator handed to Array.prototype.sort
compare(a, b, column, direction) ==
    LET result == IF ValLess(a[column], b[column], column) THEN -1
                  ELSE IF ValLess(b[column], a[column], column) THEN 1
                  ELSE a.id - b.id
    IN  IF direction = "desc" THEN -result ELSE result

\* Array.prototype.sort is stable: x, which came after every element of
\* `sorted` in the input, goes behind the elements it does not precede.
RECURSIVE insertSorted(_, _, _, _)
insertSorted(sorted, x, column, direction) ==
    IF sorted = <<>> THEN <<x>>
    ELSE LET n == Len(sorted)
         IN  IF compare(sorted[n], x, column, direction) <= 0
             THEN Append(sorted, x)
             ELSE Append(insertSorted(SubSeq(sorted, 1, n - 1), x, column, direction),
                         sorted[n])

RECURSIVE arraySort(_, _, _)
arraySort(loans, column, direction) ==
    IF loans = <<>> THEN <<>>
    ELSE LET n == Len(loans)
         IN  insertSorted(arraySort(SubSeq(loans, 1, n - 1), column, direction),
                          loans[n], column, direction)

\* column is None (null) or Some(name)
sortLoans(loans, column, direction) ==
    IF column = None \/ direction = "none" THEN loans
    ELSE arraySort(loans, column[1], direction)

\* in-place variant of the call: sort() applied to the caller's array
sortLoansOnHeapInPlace(loans, column, direction) ==
    LET heap == [input |-> loans, copy |-> None]
    IN  IF column = None \/ direction = "none"
        THEN [heap |-> heap, ref |-> "input"]
        ELSE [heap |-> [heap EXCEPT !.input = arraySort(heap.input, column[1], direction)],
              ref |-> "input"]

\* The arrays of a call: `input` is the caller's array.  With a null column or
\* direction 'none' the function returns the caller's array itself; otherwise
\* [...loans] allocates `copy` and sort() reorders that array in place.  `ref`
\* names the array returned.
sortLoansOnHeap(loans, column, direction) ==
    LET heap == [input |-> loans, copy |-> None]
    IN  IF column = None \/ direction = "none"
        THEN [heap |-> heap, ref |-> "input"]
        ELSE LET spread == [heap EXCEPT !.copy = Some(heap.input)]
                 sorted == [spread EXCEPT
                                !.copy = Some(arraySort(spread.copy[1], column[1], direction))]
             IN  [heap |-> sorted, ref |-> "copy"]

-----------------------------------------------------------------------------
(* filterLoans *)

DefaultFilter ==
    [search |-> StrEmpty, status |-> StrAll, minAmount |-> None, maxAmount |-> None,
     startDate |-> None, endDate |-> None]

\* variant of the callback: amount bounds exclusive
matchesExclusiveBounds(loan, filters) ==
    /\ filters.search # StrEmpty =>
           includes(toLowerCase(loan.borrowerName), toLowerCase(filters.search))
    /\ (filters.status # StrEmpty /\ filters.status # StrAll) =>
           loan.status = filters.status
    /\ filters.minAmount # None => loan.amount > filters.minAmount[1]
    /\ filters.maxAmount # None => loan.amount < filters.maxAmount[1]
    /\ (filters.startDate # None /\ filters.startDate # Some(StrEmpty)) =>
           ~StrLess(loan.closeDate, filters.startDate[1])
    /\ (filters.endDate # None /\ filters.endDate # Some(StrEmpty)) =>
           ~StrLess(filters.endDate[1], loan.closeDate)

\* variant of the callback: 'All' compared like any other status
matchesAllIsAStatus(loan, filters) ==
    /\ filters.search # StrEmpty =>
           includes(toLowerCase(loan.borrowerName), toLowerCase(filters.search))
    /\ filters.status # StrEmpty => loan.status = filters.status
    /\ filters.minAmount # None => ~(loan.amount < filters.minAmount[1])
    /\ filters.maxAmount # None => ~(loan.amount > filters.maxAmount[1])
    /\ (filters.startDate # None /\ filters.startDate # Some(StrEmpty)) =>
           ~StrLess(loan.closeDate, filters.startDate[1])
    /\ (filters.endDate # None /\ filters.endDate # Some(StrEmpty)) =>
           ~StrLess(filters.endDate[1], loan.closeDate)

\* the callback of loans.filter
matches(loan, filters) ==
    /\ filters.search # StrEmpty =>
           includes(toLowerCase(loan.borrowerName), toLowerCase(filters.search))
    /\ (filters.status # StrEmpty /\ filters.status # StrAll) =>
           loan.status = filters.status
    /\ filters.minAmount # None => ~(loan.amount < filters.minAmount[1])
    /\ filters.maxAmount # None => ~(loan.amount > filters.maxAmount[1])
    /\ (filters.startDate # None /\ filters.startDate # Some(StrEmpty)) =>
           ~StrLess(loan.closeDate, filters.startDate[1])
    /\ (filters.endDate # None /\ filters.endDate # Some(StrEmpty)) =>
           ~StrLess(filters.endDate[1], loan.closeDate)

filterLoans(loans, filters) == SelectSeq(loans, LAMBDA loan : matches(loan, filters))

\* The arrays of a call: `input` is the caller's array, which filter() reads;
\* `out` is the array filter() allocates and returns.
filterLoansOnHeap(loans, filters) ==
    LET heap == [input |-> loans]
    IN  [input |-> heap.input, out |-> filterLoans(heap.input, filters)]

\* JSON.stringify({ filters, sortColumn, sortDirection }): the properties in
\* their fixed order, a property whose value is undefined being left out
getCacheKey(filters, sortColumn, sortDirection) ==
    <<Some(filters.search), Some(filters.status), filters.minAmount, filters.maxAmount,
      filters.startDate, filters.endDate, sortColumn, sortDirection>>

-----------------------------------------------------------------------------
(* The store: useLoanStore.  One store instance (App.vue creates one), so  *)
(* one filteredAndSortedLoans computed over the module-level refs.         *)

\* useLoanStore.ts:28
DefaultPageSize == 25

\* useLoanStore.ts:61
CacheCap == 100

EmptyCache == [k \in {} |-> <<>>]

\* an entry of `trace`: what was done, and the size of the cache after it
did(s, what) ==
    [s EXCEPT !.trace = Append(@, [e |-> what, n |-> Cardinality(DOMAIN s.resultCache)])]

\* the refs and the cache an action reads and writes
Cur ==
    [allLoans |-> allLoans, loadedLoans |-> loadedLoans, sortState |-> sortState,
     filterState |-> filterState, paginationState |-> paginationState,
     resultCache |-> resultCache, computedView |-> computedView, trace |-> <<>>]

Commit(s) ==
    /\ allLoans' = s.allLoans
    /\ loadedLoans' = s.loadedLoans
    /\ sortState' = s.sortState
    /\ filterState' = s.filterState
    /\ paginationState' = s.paginationState
    /\ resultCache' = s.resultCache
    /\ computedView' = s.computedView
    /\ trace' = s.trace

\* the getter of the computed: a cache hit returns before allLoans.value is
\* read, so that run does not subscribe to allLoans
getter(s) ==
    LET cacheKey == getCacheKey(s.filterState, s.sortState.column, s.sortState.direction)
    IN  IF cacheKey \in DOMAIN s.resultCache
        THEN did([s EXCEPT !.computedView = [value |-> s.resultCache[cacheKey],
                                             dirty |-> FALSE, tracksAllLoans |-> FALSE]],
                 "cache.get")
        ELSE LET filtered == filterLoans(s.allLoans, s.filterState)
                 sorted == sortLoans(filtered, s.sortState.column, s.sortState.direction)
                 s1 == did(s, "compute")
                 s2 == IF Cardinality(DOMAIN s1.resultCache) > CacheCap
                       THEN did([s1 EXCEPT !.resultCache = EmptyCache], "cache.clear")
                       ELSE s1
             IN  did([s2 EXCEPT !.resultCache = (cacheKey :> sorted) @@ s2.resultCache,
                                !.computedView = [value |-> sorted, dirty |-> FALSE,
                                                  tracksAllLoans |-> TRUE]],
                     "cache.set")

\* reading filteredAndSortedLoans.value: the getter runs only when a ref it
\* read in its last run has changed since (or it never ran)
filteredAndSortedLoans(s) == IF s.computedView.dirty THEN getter(s) ELSE s

\* a write to filterState.value or sortState.value, which every run of the getter reads
triggerCriteria(s) == [s EXCEPT !.computedView.dirty = TRUE]

\* a write to allLoans.value
triggerAllLoans(s) ==
    [s EXCEPT !.computedView.dirty = @ \/ s.computedView.tracksAllLoans]

\* variant: the page counters written also when the slice is empty
loadNextPageNoGuard(s) ==
    LET pageSize == s.paginationState.pageSize
        currentPage == s.paginationState.currentPage
        startIndex == currentPage * pageSize
        s1 == filteredAndSortedLoans(did(s, "loadNextPage"))
        view == s1.computedView.value
        nextPageData == slice(view, startIndex, startIndex + pageSize)
        loaded == IF currentPage = 0 THEN nextPageData
                  ELSE s.loadedLoans \o nextPageData
    IN  [s1 EXCEPT !.loadedLoans = loaded,
                   !.paginationState.currentPage = @ + 1,
                   !.paginationState.loadedRowsCount = Len(loaded),
                   !.paginationState.totalPages = Ceil(Len(view), pageSize)]

loadNextPage(s) ==
    LET pageSize == s.paginationState.pageSize
        currentPage == s.paginationState.currentPage
        startIndex == currentPage * pageSize
        endIndex == startIndex + pageSize
        s1 == filteredAndSortedLoans(did(s, "loadNextPage"))
        view == s1.computedView.value
        nextPageData == slice(view, startIndex, endIndex)
        loaded == IF currentPage = 0 THEN nextPageData
                  ELSE s.loadedLoans \o nextPageData
    IN  IF Len(nextPageData) > 0
        THEN [s1 EXCEPT !.loadedLoans = loaded,
                        !.paginationState.currentPage = @ + 1,
                        !.paginationState.loadedRowsCount = Len(loaded),
                        !.paginationState.totalPages = Ceil(Len(view), pageSize)]
        ELSE s1

setPageSize(s, newPageSize) ==
    LET s0 == did([did(s, "setPageSize") EXCEPT !.resultCache = EmptyCache], "cache.clear")
        s1 == did([s0 EXCEPT !.paginationState.pageSize = newPageSize,
                             !.paginationState.currentPage = 0,
                             !.paginationState.loadedRowsCount = 0],
                  "reset")
        s2 == filteredAndSortedLoans(s1)
        view == s2.computedView.value
        loaded == slice(view, 0, newPageSize)
    IN  [s2 EXCEPT !.loadedLoans = loaded,
                   !.paginationState.currentPage = 1,
                   !.paginationState.loadedRowsCount = Len(loaded),
                   !.paginationState.totalPages = Ceil(Len(view), newPageSize)]

resetPagination(s) ==
    loadNextPage(did([s EXCEPT !.paginationState.currentPage = 0,
                               !.paginationState.loadedRowsCount = 0],
                     "reset"))

\* variant: the cache not emptied
setSortStateNoClear(s, column, direction) ==
    resetPagination(triggerCriteria(
        [did(s, "setSortState") EXCEPT
             !.sortState = [column |-> Some(column), direction |-> direction]]))

setSortState(s, column, direction) ==
    LET s0 == did([did(s, "setSortState") EXCEPT !.resultCache = EmptyCache], "cache.clear")
    IN  resetPagination(triggerCriteria(
            [s0 EXCEPT !.sortState = [column |-> Some(column), direction |-> direction]]))

\* variant: the new fields spread over the default filter, the other fields
\* of the current filter lost
mergeFilterOverDefault(filters, newFilter) ==
    [f \in DOMAIN filters |->
        IF f \in DOMAIN newFilter THEN newFilter[f]
        ELSE IF f = "search" THEN StrEmpty ELSE IF f = "status" THEN StrAll ELSE None]

\* { ...filterState.value, ...newFilter }
mergeFilter(filters, newFilter) ==
    [f \in DOMAIN filters |-> IF f \in DOMAIN newFilter THEN newFilter[f] ELSE filters[f]]

\* variant: the cache not emptied
setFilterNoClear(s, newFilter) ==
    resetPagination(triggerCriteria(
        [did(s, "setFilter") EXCEPT !.filterState = mergeFilter(s.filterState, newFilter)]))

\* variant: the cache emptied at the end of the action
setFilterClearLast(s, newFilter) ==
    LET s0 == resetPagination(triggerCriteria(
                  [did(s, "setFilter") EXCEPT
                       !.filterState = mergeFilter(s.filterState, newFilter)]))
    IN  did([s0 EXCEPT !.resultCache = EmptyCache], "cache.clear")

setFilter(s, newFilter) ==
    LET s0 == did([did(s, "setFilter") EXCEPT !.resultCache = EmptyCache], "cache.clear")
    IN  resetPagination(triggerCriteria(
            [s0 EXCEPT !.filterState = mergeFilter(s.filterState, newFilter)]))

clearCache(s) == did([s EXCEPT !.resultCache = EmptyCache], "cache.clear")

\* the computed values derived from the view
totalFilteredCount(s) == Len(filteredAndSortedLoans(s).computedView.value)

hasMoreData(s) == Len(s.loadedLoans) < Len(filteredAndSortedLoans(s).computedView.value)

-----------------------------------------------------------------------------
(* Inputs of the store's actions *)

\* five records with ids 1..5 and amounts 100, 100, 50, 200, 50
DataA ==
    << Loan(1, StrBob, 100, StrApproved, Date0102),
       Loan(2, Stral, 100, StrPending, Date0101),
       Loan(3, StrAl, 50, StrApproved, Date0103),
       Loan(4, Strbob, 200, StrRejected, Date0102),
       Loan(5, StrCy, 50, StrApproved, Date0101) >>

\* what response.json() may resolve to: three records (the first of DataA),
\* or a single one
Data1 == SubSeq(DataA, 1, 3)

Data2 == << Loan(1, StrDee, 300, StrApproved, Date0201) >>

Datasets == {Data1, Data2}

\* the arguments of setPageSize
PageSizes == {SmallPageSize, DefaultPageSize}

\* the arguments of setFilter: Partial<FilterState>
FilterPartials ==
    { [status |-> StrApproved], [status |-> StrAll],
      [minAmount |-> Some(150)], [minAmount |-> None],
      DefaultFilter }

\* the arguments of setSortState
SortColumns == {"amount"}

\* err.message of what fetch() or response.json() rejects with
FetchErrors == {"Failed to fetch"}

NotOkError == "Failed to load data: Not Found"

JsonErrors == {"Unexpected end of JSON input"}

\* a value of `last`: the operation and, where a claim needs it, its argument
Op(op, arg) == [op |-> op, arg |-> arg]

-----------------------------------------------------------------------------
(* calculateVisibleRange, and the rows VirtualTable mounts *)

\* overscan = 5
DefaultOverscan == 5

\* Math.floor(a / b) for a >= 0, b > 0
Floor(a, b) == a \div b

\* variant: the end index computed with Math.floor
calculateVisibleRangeFloorEnd(scrollTop, containerHeight, itemHeight, totalItems, overscan) ==
    LET o == IF overscan = None THEN DefaultOverscan ELSE overscan[1]
    IN  [startIndex |-> Max(0, Floor(scrollTop, itemHeight) - o),
         endIndex |-> Min(totalItems - 1,
                          Floor(scrollTop + containerHeight, itemHeight) + o)]

\* variant: the end index not clamped to the last row
calculateVisibleRangeNoClamp(scrollTop, containerHeight, itemHeight, totalItems, overscan) ==
    LET o == IF overscan = None THEN DefaultOverscan ELSE overscan[1]
    IN  [startIndex |-> Max(0, Floor(scrollTop, itemHeight) - o),
         endIndex |-> Ceil(scrollTop + containerHeight, itemHeight) + o]

\* variant: the range always starting at the first row
calculateVisibleRangeFromTop(scrollTop, containerHeight, itemHeight, totalItems, overscan) ==
    LET o == IF overscan = None THEN DefaultOverscan ELSE overscan[1]
    IN  [startIndex |-> 0,
         endIndex |-> Min(totalItems - 1,
                          Ceil(scrollTop + containerHeight, itemHeight) + o)]

\* variant: the first row rounded up
calculateVisibleRangeCeilStart(scrollTop, containerHeight, itemHeight, totalItems, overscan) ==
    LET o == IF overscan = None THEN DefaultOverscan ELSE overscan[1]
    IN  [startIndex |-> Max(0, Ceil(scrollTop, itemHeight) - o),
         endIndex |-> Min(totalItems - 1,
                          Ceil(scrollTop + containerHeight, itemHeight) + o)]

\* overscan is None when the caller leaves the argument out
calculateVisibleRange(scrollTop, containerHeight, itemHeight, totalItems, overscan) ==
    LET o == IF overscan = None THEN DefaultOverscan ELSE overscan[1]
    IN  [startIndex |-> Max(0, Floor(scrollTop, itemHeight) - o),
         endIndex |-> Min(totalItems - 1,
                          Ceil(scrollTop + containerHeight, itemHeight) + o)]

\* props.items.slice(start, end + 1), the rows named by their index
visibleItems(items, range) == slice(items, range.startIndex, range.endIndex + 1)

-----------------------------------------------------------------------------
(* The store's state after the module is loaded and useLoanStore() called *)

\* no component mounted, no debounced or throttled function created
UiAtRest ==
    /\ debounced = None
    /\ throttled = None
    /\ scroller = None
    /\ panel = None
    /\ header = None
    /\ keyed = None
    /\ row = None

Init ==
    /\ allLoans = <<>>
    /\ loadedLoans = <<>>
    /\ isLoading = FALSE
    /\ error = None
    /\ sortState = [column |-> None, direction |-> "none"]
    /\ filterState = DefaultFilter
    /\ paginationState = [pageSize |-> DefaultPageSize, currentPage |-> 0,
                          totalPages |-> 0, loadedRowsCount |-> 0]
    /\ resultCache = EmptyCache
    /\ computedView = [value |-> <<>>, dirty |-> TRUE, tracksAllLoans |-> FALSE]
    /\ pending = [fetching |-> 0, parsing |-> 0]
    /\ loads = 0
    /\ failures = 0
    /\ slate = None
    /\ last = Op("init", None)
    /\ calls = Some(0)
    /\ trace = <<>>
    /\ sortArgs = None
    /\ sortResult = None
    /\ sortAgain = None
    /\ sortHeap = None
    /\ filterCall = None
    /\ rangeCall = None
    /\ UiAtRest

countCall == IF calls = None THEN None ELSE Some(Min(calls[1] + 1, MaxCalls))

(* loadInitialData, up to its first await *)
LoadInitialDataStart ==
    /\ loads < MaxLoads
    /\ loads' = loads + 1
    /\ isLoading' = TRUE
    /\ error' = None
    /\ pending' = [pending EXCEPT !.fetching = @ + 1]
    /\ UNCHANGED <<allLoans, loadedLoans, sortState, filterState, paginationState,
                   resultCache, computedView, failures, last, calls, trace,
                   sortVars, utilVars>>
    /\ slate' = IF pending.fetching + pending.parsing > 0 THEN None
                ELSE IF slate = None \/ last.op = "loadInitialData:done"
                     THEN Some([from |-> Cur, failed |-> 0])
                     ELSE slate

\* variant: the catch block without the finally block
loadFailedNoFinally(message) ==
    /\ error' = Some(message)
    /\ last' = Op("loadInitialData:failed", None)
    /\ failures' = failures + 1
    /\ slate' = IF slate = None THEN None
                ELSE Some([slate[1] EXCEPT !.failed = 1])
    /\ UNCHANGED <<allLoans, loadedLoans, isLoading, sortState, filterState,
                   paginationState, resultCache, computedView, calls, loads, trace,
                   sortVars, utilVars>>

\* the catch and finally blocks
loadFailed(message) ==
    /\ error' = Some(message)
    /\ isLoading' = FALSE
    /\ last' = Op("loadInitialData:failed", None)
    /\ failures' = failures + 1
    /\ slate' = IF slate = None THEN None
                ELSE Some([slate[1] EXCEPT !.failed = 1])
    /\ UNCHANGED <<allLoans, loadedLoans, sortState, filterState, paginationState,
                   resultCache, computedView, calls, loads, trace, sortVars, utilVars>>

(* fetch() rejects *)
FetchRejected ==
    /\ pending.fetching > 0
    /\ pending' = [pending EXCEPT !.fetching = @ - 1]
    /\ \E message \in FetchErrors : loadFailed(message)

(* fetch() resolves with a response that is not ok *)
FetchNotOk ==
    /\ pending.fetching > 0
    /\ pending' = [pending EXCEPT !.fetching = @ - 1]
    /\ loadFailed(NotOkError)

(* fetch() resolves with an ok response: on to await response.json() *)
FetchOk ==
    /\ pending.fetching > 0
    /\ pending' = [pending EXCEPT !.fetching = @ - 1, !.parsing = @ + 1]
    /\ UNCHANGED <<allLoans, loadedLoans, isLoading, error, sortState, filterState,
                   paginationState, resultCache, computedView, last, calls, loads,
                   failures, slate, trace, sortVars, utilVars>>

(* response.json() rejects *)
JsonRejected ==
    /\ pending.parsing > 0
    /\ pending' = [pending EXCEPT !.parsing = @ - 1]
    /\ \E message \in JsonErrors : loadFailed(message)

(* response.json() resolves: store the data, load the first page *)
JsonResolved ==
    /\ pending.parsing > 0
    /\ pending' = [pending EXCEPT !.parsing = @ - 1]
    /\ \E data \in Datasets :
           /\ Commit(loadNextPage(triggerAllLoans([Cur EXCEPT !.allLoans = data])))
           /\ last' = Op("loadInitialData:done", Some(data))
    /\ isLoading' = FALSE
    /\ calls' = IF calls = Some(0) THEN Some(1) ELSE None
    /\ UNCHANGED <<error, loads, failures, slate, sortVars, utilVars>>

LoadNextPage ==
    /\ Commit(loadNextPage(Cur))
    /\ last' = Op("loadNextPage", None)
    /\ calls' = countCall
    /\ slate' = None
    /\ UNCHANGED <<isLoading, error, pending, loads, failures, sortVars, utilVars>>

SetPageSize ==
    /\ \E newPageSize \in PageSizes :
           /\ Commit(setPageSize(Cur, newPageSize))
           /\ last' = Op("setPageSize", Some(newPageSize))
    /\ calls' = None
    /\ slate' = None
    /\ UNCHANGED <<isLoading, error, pending, loads, failures, sortVars, utilVars>>

SetSortState ==
    /\ \E column \in SortColumns, direction \in Directions :
           Commit(setSortState(Cur, column, direction))
    /\ last' = Op("setSortState", None)
    /\ calls' = Some(1)
    /\ slate' = None
    /\ UNCHANGED <<isLoading, error, pending, loads, failures, sortVars, utilVars>>

SetFilter ==
    /\ \E newFilter \in FilterPartials : Commit(setFilter(Cur, newFilter))
    /\ last' = Op("setFilter", None)
    /\ calls' = Some(1)
    /\ slate' = None
    /\ UNCHANGED <<isLoading, error, pending, loads, failures, sortVars, utilVars>>

ResetPagination ==
    /\ Commit(resetPagination(Cur))
    /\ last' = Op("resetPagination", None)
    /\ calls' = Some(1)
    /\ slate' = None
    /\ UNCHANGED <<isLoading, error, pending, loads, failures, sortVars, utilVars>>

ClearCache ==
    /\ Commit(clearCache(Cur))
    /\ last' = Op("clearCache", None)
    /\ slate' = None
    /\ UNCHANGED <<isLoading, error, pending, calls, loads, failures, sortVars, utilVars>>

(* a consumer (the template, exportData) reads filteredAndSortedLoans,
   totalFilteredCount or hasMoreData *)
ReadView ==
    /\ Commit([filteredAndSortedLoans(Cur) EXCEPT !.trace = trace])
    /\ UNCHANGED <<isLoading, error, pending, last, calls, loads, failures, slate,
                   sortVars, utilVars>>

Next ==
    \/ LoadInitialDataStart
    \/ FetchRejected
    \/ FetchNotOk
    \/ FetchOk
    \/ JsonRejected
    \/ JsonResolved
    \/ LoadNextPage
    \/ SetPageSize
    \/ SetSortState
    \/ SetFilter
    \/ ResetPagination
    \/ ClearCache
    \/ ReadView

Spec == Init /\ [][Next]_vars

\* A pending fetch() settles and a pending response.json() settles: the
\* continuation of an await runs once its promise is settled.
Settles ==
    /\ WF_vars(FetchRejected \/ FetchNotOk \/ FetchOk)
    /\ WF_vars(JsonRejected \/ JsonResolved)

\* loadInitialData with the store actions a user can trigger while it is
\* pending: a scroll to the bottom, a page size, a filter
LiveNext ==
    \/ LoadInitialDataStart
    \/ FetchRejected
    \/ FetchNotOk
    \/ FetchOk
    \/ JsonRejected
    \/ JsonResolved
    \/ LoadNextPage
    \/ SetPageSize
    \/ SetFilter

LiveSpec == Init /\ [][LiveNext]_vars /\ Settles

\* The store's data path: the calls of loadInitialData that succeed, with every
\* other store action.  A failing call writes error and isLoading only, which
\* no step of the data path reads.
PagingNext ==
    \/ LoadInitialDataStart
    \/ FetchOk
    \/ JsonResolved
    \/ LoadNextPage
    \/ SetPageSize
    \/ SetSortState
    \/ SetFilter
    \/ ResetPagination
    \/ ClearCache
    \/ ReadView

PagingSpec == Init /\ [][PagingNext]_vars

-----------------------------------------------------------------------------
(* The cache under many criteria: once the data is loaded, the minimum amount
   raised one step at a time (the number input's spinner), each step a
   setFilter with criteria the store has not seen *)

\* the store after its first loadInitialData call has succeeded with `data`
FirstLoadDone ==
    \E data \in Datasets :
        LET s0 == [allLoans |-> <<>>, loadedLoans |-> <<>>,
                   sortState |-> [column |-> None, direction |-> "none"],
                   filterState |-> DefaultFilter,
                   paginationState |-> [pageSize |-> DefaultPageSize, currentPage |-> 0,
                                        totalPages |-> 0, loadedRowsCount |-> 0],
                   resultCache |-> EmptyCache,
                   computedView |-> [value |-> <<>>, dirty |-> TRUE,
                                     tracksAllLoans |-> FALSE],
                   trace |-> <<>>]
            s == loadNextPage(triggerAllLoans([s0 EXCEPT !.allLoans = data]))
        IN  /\ allLoans = s.allLoans
            /\ loadedLoans = s.loadedLoans
            /\ sortState = s.sortState
            /\ filterState = s.filterState
            /\ paginationState = s.paginationState
            /\ resultCache = s.resultCache
            /\ computedView = s.computedView
            /\ trace = s.trace
            /\ isLoading = FALSE
            /\ error = None
            /\ pending = [fetching |-> 0, parsing |-> 0]
            /\ loads = 1
            /\ failures = 0
            /\ slate = Some([from |-> s0, failed |-> 0])
            /\ last = Op("loadInitialData:done", Some(data))
            /\ calls = Some(1)
            /\ sortArgs = None
            /\ sortResult = None
            /\ sortAgain = None
            /\ sortHeap = None
            /\ filterCall = None
            /\ rangeCall = None

CacheInit == FirstLoadDone /\ UiAtRest

StepMinAmount ==
    /\ LET k == IF filterState.minAmount = None THEN 1 ELSE filterState.minAmount[1] + 1
       IN  /\ k <= MaxAmountSteps
           /\ Commit(setFilter(Cur, [minAmount |-> Some(k)]))
    /\ last' = Op("setFilter", None)
    /\ calls' = Some(1)
    /\ slate' = None
    /\ UNCHANGED <<isLoading, error, pending, loads, failures, sortVars, utilVars>>

CacheNext ==
    \/ StepMinAmount
    \/ SetPageSize
    \/ LoadNextPage

CacheSpec == CacheInit /\ [][CacheNext]_vars

-----------------------------------------------------------------------------
(* sortLoans on its own: a call on a list of records with unique ids, and a
   second call on the result of the first *)

\* every list of at most n distinct records of the set S
RECURSIVE ListsUpTo(_, _)
ListsUpTo(S, n) ==
    IF n = 0 THEN {<<>>}
    ELSE LET shorter == ListsUpTo(S, n - 1)
         IN  shorter \cup {Append(l, x) : l \in shorter, x \in S}

HasUniqueIds(loans) ==
    \A i, j \in DOMAIN loans : loans[i].id = loans[j].id => i = j

SortInputs ==
    {l \in ListsUpTo(Range(DataA), MaxLen) : HasUniqueIds(l)} \cup {DataA}

SortInit ==
    /\ allLoans = <<>>
    /\ loadedLoans = <<>>
    /\ isLoading = FALSE
    /\ error = None
    /\ sortState = [column |-> None, direction |-> "none"]
    /\ filterState = DefaultFilter
    /\ paginationState = [pageSize |-> DefaultPageSize, currentPage |-> 0,
                          totalPages |-> 0, loadedRowsCount |-> 0]
    /\ resultCache = EmptyCache
    /\ computedView = [value |-> <<>>, dirty |-> TRUE, tracksAllLoans |-> FALSE]
    /\ pending = [fetching |-> 0, parsing |-> 0]
    /\ loads = 0
    /\ failures = 0
    /\ slate = None
    /\ last = Op("init", None)
    /\ calls = Some(0)
    /\ trace = <<>>
    /\ \E loans \in SortInputs, column \in {None} \cup {Some(c) : c \in Columns},
          direction \in Directions :
           sortArgs = Some([loans |-> loans, column |-> column, direction |-> direction])
    /\ sortResult = None
    /\ sortAgain = None
    /\ sortHeap = None
    /\ filterCall = None
    /\ rangeCall = None
    /\ UiAtRest

CallSortLoans ==
    /\ sortResult = None
    /\ sortResult' = Some(sortLoans(sortArgs[1].loans, sortArgs[1].column,
                                    sortArgs[1].direction))
    /\ sortHeap' = Some(sortLoansOnHeap(sortArgs[1].loans, sortArgs[1].column,
                                         sortArgs[1].direction))
    /\ UNCHANGED <<storeVars, sortArgs, sortAgain, utilVars>>

CallSortLoansAgain ==
    /\ sortResult # None
    /\ sortAgain = None
    /\ sortAgain' = Some(sortLoans(sortResult[1], sortArgs[1].column,
                                   sortArgs[1].direction))
    /\ UNCHANGED <<storeVars, sortArgs, sortResult, sortHeap, utilVars>>

SortNext ==
    \/ CallSortLoans
    \/ CallSortLoansAgain

SortSpec == SortInit /\ [][SortNext]_vars

-----------------------------------------------------------------------------
(* filterLoans on its own: a call on a dataset and criteria, and a second call
   with one more constraint *)

\* the store and the sortLoans call, untouched while a utility is exercised
StoreAtRest ==
    /\ allLoans = <<>>
    /\ loadedLoans = <<>>
    /\ isLoading = FALSE
    /\ error = None
    /\ sortState = [column |-> None, direction |-> "none"]
    /\ filterState = DefaultFilter
    /\ paginationState = [pageSize |-> DefaultPageSize, currentPage |-> 0,
                          totalPages |-> 0, loadedRowsCount |-> 0]
    /\ resultCache = EmptyCache
    /\ computedView = [value |-> <<>>, dirty |-> TRUE, tracksAllLoans |-> FALSE]
    /\ pending = [fetching |-> 0, parsing |-> 0]
    /\ loads = 0
    /\ failures = 0
    /\ slate = None
    /\ last = Op("init", None)
    /\ calls = Some(0)
    /\ trace = <<>>
    /\ sortArgs = None
    /\ sortResult = None
    /\ sortAgain = None
    /\ sortHeap = None

\* a mixed dataset with amounts on both sides of 1000
DataB ==
    << Loan(1, StrBob, 1000, StrApproved, Date0102),
       Loan(2, Stral, 999, StrApproved, Date0101),
       Loan(3, StrAl, 2000, StrPending, Date0103),
       Loan(4, Strbob, 1500, StrApproved, Date0201),
       Loan(5, StrCy, 1000, StrRejected, Date0102) >>

FilterDatasets == {DataA, DataB}

\* criteria as LoanFilters emits them: a status of the select, an empty
\* amount or date input sent as undefined
FilterSearches == {StrEmpty, StrBO, Stral, Strzz}

FilterStatuses == {StrAll, StrApproved, StrRejected}

FilterMinAmounts == {None, Some(100), Some(1000)}

FilterMaxAmounts == {None, Some(100), Some(1500)}

FilterStartDates == {None, Some(Date0102)}

FilterEndDates == {None, Some(Date0102)}

FilterCriteria ==
    [search : FilterSearches, status : FilterStatuses,
     minAmount : FilterMinAmounts, maxAmount : FilterMaxAmounts,
     startDate : FilterStartDates, endDate : FilterEndDates]

\* the partial criteria that constrain a dimension `filters` leaves open
Narrowings(filters) ==
    {[search |-> x] : x \in IF filters.search = StrEmpty
                            THEN FilterSearches \ {StrEmpty} ELSE {}}
    \cup {[status |-> x] : x \in IF filters.status = StrAll
                                THEN FilterStatuses \ {StrAll} ELSE {}}
    \cup {[minAmount |-> x] : x \in IF filters.minAmount = None
                                   THEN FilterMinAmounts \ {None} ELSE {}}
    \cup {[maxAmount |-> x] : x \in IF filters.maxAmount = None
                                   THEN FilterMaxAmounts \ {None} ELSE {}}
    \cup {[startDate |-> x] : x \in IF filters.startDate = None
                                   THEN FilterStartDates \ {None} ELSE {}}
    \cup {[endDate |-> x] : x \in IF filters.endDate = None
                                 THEN FilterEndDates \ {None} ELSE {}}

FilterInit ==
    /\ StoreAtRest
    /\ \E loans \in FilterDatasets, filters \in FilterCriteria :
           filterCall = Some([given |-> loans, loans |-> loans, filters |-> filters,
                              result |-> None, extra |-> None, more |-> None])
    /\ rangeCall = None
    /\ UiAtRest

CallFilterLoans ==
    /\ filterCall[1].result = None
    /\ LET c == filterCall[1]
           run == filterLoansOnHeap(c.loans, c.filters)
       IN  filterCall' = Some([c EXCEPT !.loans = run.input, !.result = Some(run.out)])
    /\ UNCHANGED <<storeVars, sortVars, rangeCall, uiVars>>

CallFilterLoansNarrowed ==
    /\ filterCall[1].result # None
    /\ filterCall[1].more = None
    /\ \E extra \in Narrowings(filterCall[1].filters) :
           LET c == filterCall[1]
               run == filterLoansOnHeap(c.loans, mergeFilter(c.filters, extra))
           IN  filterCall' = Some([c EXCEPT !.loans = run.input, !.extra = Some(extra),
                                           !.more = Some(run.out)])
    /\ UNCHANGED <<storeVars, sortVars, rangeCall, uiVars>>

FilterNext ==
    \/ CallFilterLoans
    \/ CallFilterLoansNarrowed

FilterSpec == FilterInit /\ [][FilterNext]_vars

-----------------------------------------------------------------------------
(* calculateVisibleRange on its own: a call, the same call again, and the
   slice VirtualTable mounts.  Lengths are integers of a common unit: the
   function reads them only through the quotients scrollTop / itemHeight and
   (scrollTop + containerHeight) / itemHeight. *)

RangeArgs(scrollTop, containerHeight, itemHeight, totalItems, overscan) ==
    [scrollTop |-> scrollTop, containerHeight |-> containerHeight,
     itemHeight |-> itemHeight, totalItems |-> totalItems, overscan |-> overscan]

\* scroll offset 200 in a viewport of 100 over 200 rows of height 20, overscan 5
ScenarioD == RangeArgs(200, 100, 20, 200, Some(5))

\* VirtualTable's defaults (viewport 600, rows of 60) scrolled to 600 over 200
\* rows, the overscan left out
TableDefaults == RangeArgs(600, 600, 60, 200, None)

RangeInputs ==
    {RangeArgs(st, ch, ih, n, o) :
        st \in 0..MaxScrollTop, ch \in 1..MaxContainerHeight, ih \in 1..MaxItemHeight,
        n \in 0..MaxTotalItems, o \in {None, Some(0), Some(1)}}
    \cup {ScenarioD, TableDefaults}

RangeInit ==
    /\ StoreAtRest
    /\ filterCall = None
    /\ \E args \in RangeInputs :
           rangeCall = Some([args |-> args, result |-> None, again |-> None,
                             mounted |-> None])
    /\ UiAtRest

CallCalculateVisibleRange ==
    /\ rangeCall[1].result = None
    /\ LET a == rangeCall[1].args
       IN  rangeCall' = Some([rangeCall[1] EXCEPT !.result =
               Some(calculateVisibleRange(a.scrollTop, a.containerHeight, a.itemHeight,
                                          a.totalItems, a.overscan))])
    /\ UNCHANGED <<storeVars, sortVars, filterCall, uiVars>>

CallCalculateVisibleRangeAgain ==
    /\ rangeCall[1].result # None
    /\ rangeCall[1].again = None
    /\ LET a == rangeCall[1].args
       IN  rangeCall' = Some([rangeCall[1] EXCEPT !.again =
               Some(calculateVisibleRange(a.scrollTop, a.containerHeight, a.itemHeight,
                                          a.totalItems, a.overscan))])
    /\ UNCHANGED <<storeVars, sortVars, filterCall, uiVars>>

\* the computed visibleItems of VirtualTable, its items being rows 0..n-1
MountVisibleItems ==
    /\ rangeCall[1].result # None
    /\ rangeCall[1].mounted = None
    /\ LET items == [i \in 1..rangeCall[1].args.totalItems |-> i - 1]
       IN  rangeCall' = Some([rangeCall[1] EXCEPT !.mounted =
               Some(visibleItems(items, rangeCall[1].result[1]))])
    /\ UNCHANGED <<storeVars, sortVars, filterCall, uiVars>>

RangeNext ==
    \/ CallCalculateVisibleRange
    \/ CallCalculateVisibleRangeAgain
    \/ MountVisibleItems

RangeSpec == RangeInit /\ [][RangeNext]_vars

-----------------------------------------------------------------------------
(* Timers: setTimeout and clearTimeout over the timers one closure has set.
   Time is in milliseconds; a timer holds the time left until its callback
   runs, and time does not pass a timer that is due. *)

\* an id no pending timer has
NewId(timers) ==
    CHOOSE i \in 1..(Cardinality(timers) + 1) : \A t \in timers : t.id # i

setTimeout(timers, id, delay, payload) ==
    timers \cup {[id |-> id, left |-> delay, payload |-> payload]}

\* clearing an id that is not pending (undefined, or a timer that has run) does nothing
clearTimeout(timers, id) == {t \in timers : t.id # id}

Due(timers) == {t \in timers : t.left = 0}

CanElapse(timers, ms) == \A t \in timers : t.left >= ms

Elapse(timers, ms) == {[t EXCEPT !.left = @ - ms] : t \in timers}

\* the time steps of the model: a millisecond, and a tenth of a second
TimeSteps == {1, 100}

-----------------------------------------------------------------------------
(* debounce *)

\* debounce(func, wait): the closure, `timeout` not yet assigned
debounce(wait) == [wait |-> wait, timeout |-> 0, timers |-> {}]

\* variant: the pending timer not cleared
debouncedCallNoClear(f, args) ==
    LET id == NewId(f.timers)
    IN  [f EXCEPT !.timers = setTimeout(f.timers, id, f.wait, args), !.timeout = id]

\* the returned function called with `args`:
\* clearTimeout(timeout); timeout = setTimeout(() => func(...args), wait)
debouncedCall(f, args) ==
    LET cleared == clearTimeout(f.timers, f.timeout)
        id == NewId(cleared)
    IN  [f EXCEPT !.timers = setTimeout(cleared, id, f.wait, args), !.timeout = id]

\* the callback of timer t runs: func(...args), the arguments the call captured
debouncedTimeout(f, t) ==
    [fn |-> [f EXCEPT !.timers = @ \ {t}], invoke |-> Some(t.payload)]

\* debouncedSearchUpdate: 300
SearchWait == 300

\* debouncedAmountUpdate: 500
AmountWait == 500

-----------------------------------------------------------------------------
(* throttle *)

\* throttle(func, limit): the closure, `inThrottle` undefined (falsy)
throttle(limit) == [limit |-> limit, inThrottle |-> FALSE, timers |-> {}]

\* variant: func invoked whether or not the window is open
throttledCallNoGuard(f, args) ==
    [fn |-> [f EXCEPT !.inThrottle = TRUE,
                      !.timers = setTimeout(f.timers, NewId(f.timers), f.limit, <<>>)],
     invoke |-> Some(args)]

\* the returned function called with `args`
throttledCall(f, args) ==
    IF ~f.inThrottle
    THEN [fn |-> [f EXCEPT !.inThrottle = TRUE,
                           !.timers = setTimeout(f.timers, NewId(f.timers), f.limit, <<>>)],
          invoke |-> Some(args)]
    ELSE [fn |-> f, invoke |-> None]

\* the callback of timer t runs: inThrottle = false
throttledTimeout(f, t) == [f EXCEPT !.inThrottle = FALSE, !.timers = @ \ {t}]

\* onScroll of useVirtualScroll: 16
ScrollThrottle == 16

\* throttledScrollHandler of VirtualTable: 300
TableScrollThrottle == 300

-----------------------------------------------------------------------------
(* debounce on its own: calls of a debounced function, time passing, and its
   timer running *)

DebounceWaits == {SearchWait, AmountWait}

\* the argument lists of the calls: a search text, or none
DebounceArgs == {<<StrAl>>, <<StrBO>>, <<>>}

\* calls, lastArgs, since, strict and invoked are history: the calls made since
\* the function last had no timer pending, the arguments of the last call,
\* the time since it (counted up to wait), whether each call came less than
\* wait after the one before, and the invocations of func since the first
DebounceInit ==
    /\ StoreAtRest
    /\ filterCall = None
    /\ rangeCall = None
    /\ \E wait \in DebounceWaits :
           debounced = Some([fn |-> debounce(wait), calls |-> 0, lastArgs |-> None,
                             since |-> 0, strict |-> TRUE, invoked |-> <<>>])
    /\ throttled = None
    /\ scroller = None
    /\ panel = None
    /\ header = None
    /\ keyed = None
    /\ row = None

DebouncedCall ==
    /\ \E args \in DebounceArgs :
           LET d == debounced[1]
               first == d.fn.timers = {}
           IN  /\ first \/ d.calls < MaxBurst
               /\ debounced' = Some([fn |-> debouncedCall(d.fn, args),
                                     calls |-> IF first THEN 1 ELSE d.calls + 1,
                                     lastArgs |-> Some(args),
                                     since |-> 0,
                                     strict |-> IF first THEN TRUE
                                                ELSE d.strict /\ d.since < d.fn.wait,
                                     invoked |-> IF first THEN <<>> ELSE d.invoked])
    /\ UNCHANGED <<storeVars, sortVars, filterCall, rangeCall, throttled, scroller,
                   panel, header, keyed, row>>

DebouncedTimeout ==
    /\ \E t \in Due(debounced[1].fn.timers) :
           LET d == debounced[1]
               run == debouncedTimeout(d.fn, t)
           IN  debounced' = Some([d EXCEPT !.fn = run.fn,
                                           !.invoked = Append(@, [args |-> run.invoke[1],
                                                                  since |-> d.since])])
    /\ UNCHANGED <<storeVars, sortVars, filterCall, rangeCall, throttled, scroller,
                   panel, header, keyed, row>>

DebounceElapse ==
    /\ \E ms \in TimeSteps :
           LET d == debounced[1]
           IN  /\ CanElapse(d.fn.timers, ms)
               /\ d.calls > 0
               /\ debounced' = Some([d EXCEPT !.fn.timers = Elapse(@, ms),
                                               !.since = Min(@ + ms, d.fn.wait)])
    /\ UNCHANGED <<storeVars, sortVars, filterCall, rangeCall, throttled, scroller,
                   panel, header, keyed, row>>

DebounceNext ==
    \/ DebouncedCall
    \/ DebouncedTimeout
    \/ DebounceElapse

DebounceSpec == DebounceInit /\ [][DebounceNext]_vars

-----------------------------------------------------------------------------
(* throttle on its own: calls of a throttled function, each with its own
   number as argument, time passing, and its timer running *)

ThrottleLimits == {ScrollThrottle, TableScrollThrottle}

\* made, since, ran and dropped are history: the calls made, the time since
\* func was last invoked (counted up to limit), the invocations of func (the
\* number of the call each ran for and the time since the invocation before),
\* and the calls that returned without invoking func
ThrottleInit ==
    /\ StoreAtRest
    /\ filterCall = None
    /\ rangeCall = None
    /\ debounced = None
    /\ \E limit \in ThrottleLimits :
           throttled = Some([fn |-> throttle(limit), made |-> 0, since |-> 0,
                             ran |-> <<>>, dropped |-> {}])
    /\ scroller = None
    /\ panel = None
    /\ header = None
    /\ keyed = None
    /\ row = None

ThrottledCall ==
    /\ LET h == throttled[1]
           n == h.made + 1
           run == throttledCall(h.fn, <<n>>)
       IN  /\ h.made < MaxThrottleCalls
           /\ throttled' = Some(
                  IF run.invoke # None
                  THEN [h EXCEPT !.fn = run.fn, !.made = n, !.since = 0,
                                 !.ran = Append(@, [call |-> run.invoke[1][1],
                                                    gap |-> IF h.ran = <<>> THEN None
                                                            ELSE Some(h.since)])]
                  ELSE [h EXCEPT !.fn = run.fn, !.made = n, !.dropped = @ \cup {n}])
    /\ UNCHANGED <<storeVars, sortVars, filterCall, rangeCall, debounced, scroller,
                   panel, header, keyed, row>>

ThrottledTimeout ==
    /\ \E t \in Due(throttled[1].fn.timers) :
           throttled' = Some([throttled[1] EXCEPT !.fn = throttledTimeout(@, t)])
    /\ UNCHANGED <<storeVars, sortVars, filterCall, rangeCall, debounced, scroller,
                   panel, header, keyed, row>>

ThrottleElapse ==
    /\ \E ms \in TimeSteps :
           LET h == throttled[1]
           IN  /\ CanElapse(h.fn.timers, ms)
               /\ h.ran # <<>>
               /\ throttled' = Some([h EXCEPT !.fn.timers = Elapse(@, ms),
                                               !.since = Min(@ + ms, h.fn.limit)])
    /\ UNCHANGED <<storeVars, sortVars, filterCall, rangeCall, debounced, scroller,
                   panel, header, keyed, row>>

ThrottleNext ==
    \/ ThrottledCall
    \/ ThrottledTimeout
    \/ ThrottleElapse

ThrottleSpec == ThrottleInit /\ [][ThrottleNext]_vars

-----------------------------------------------------------------------------
(* Scrolling the table: the scroll container of VirtualTable, its
   throttledScrollHandler (300 ms) and, behind it, onScroll of
   useVirtualScroll (16 ms), which copies the container's offset to the
   scrollTop ref that the visible range is computed from *)

\* the offsets the user scrolls the container to
ScrollOffsets == {0, 120, 600}

\* handleScroll(event): throttledScrollHandler, and through it onScroll, which
\* reads event.target.scrollTop when it runs
handleScroll(s) ==
    LET outer == throttledCall(s.handler, <<>>)
        inner == throttledCall(s.onScroll, <<>>)
    IN  IF outer.invoke = None THEN s
        ELSE IF inner.invoke = None THEN [s EXCEPT !.handler = outer.fn]
        ELSE [s EXCEPT !.handler = outer.fn, !.onScroll = inner.fn,
                       !.scrollTop = s.element.scrollTop]

\* the table mounted: the watcher of scrollElement has set the container's
\* offset and the ref to 0 and called onScroll once
ScrollInit ==
    /\ StoreAtRest
    /\ filterCall = None
    /\ rangeCall = None
    /\ debounced = None
    /\ throttled = None
    /\ scroller = Some([element |-> [scrollTop |-> 0],
                        scrollTop |-> 0,
                        handler |-> throttle(TableScrollThrottle),
                        onScroll |-> throttledCall(throttle(ScrollThrottle), <<>>).fn])
    /\ panel = None
    /\ header = None
    /\ keyed = None
    /\ row = None

(* the user scrolls the container, and the scroll event is handled *)
Scroll ==
    /\ \E offset \in ScrollOffsets \ {scroller[1].element.scrollTop} :
           scroller' = Some(handleScroll([scroller[1] EXCEPT !.element.scrollTop = offset]))
    /\ UNCHANGED <<storeVars, sortVars, filterCall, rangeCall, debounced, throttled,
                   panel, header, keyed, row>>

ScrollHandlerTimeout ==
    /\ \E t \in Due(scroller[1].handler.timers) :
           scroller' = Some([scroller[1] EXCEPT !.handler = throttledTimeout(@, t)])
    /\ UNCHANGED <<storeVars, sortVars, filterCall, rangeCall, debounced, throttled,
                   panel, header, keyed, row>>

OnScrollTimeout ==
    /\ \E t \in Due(scroller[1].onScroll.timers) :
           scroller' = Some([scroller[1] EXCEPT !.onScroll = throttledTimeout(@, t)])
    /\ UNCHANGED <<storeVars, sortVars, filterCall, rangeCall, debounced, throttled,
                   panel, header, keyed, row>>

ScrollElapse ==
    /\ \E ms \in TimeSteps :
           LET s == scroller[1]
           IN  /\ CanElapse(s.handler.timers \cup s.onScroll.timers, ms)
               /\ s.handler.timers \cup s.onScroll.timers # {}
               /\ scroller' = Some([s EXCEPT !.handler.timers = Elapse(@, ms),
                                               !.onScroll.timers = Elapse(@, ms)])
    /\ UNCHANGED <<storeVars, sortVars, filterCall, rangeCall, debounced, throttled,
                   panel, header, keyed, row>>

ScrollNext ==
    \/ Scroll
    \/ ScrollHandlerTimeout
    \/ OnScrollTimeout
    \/ ScrollElapse

ScrollSpec == ScrollInit /\ [][ScrollNext]_vars

-----------------------------------------------------------------------------
(* VirtualTable under App: the load-more event.  The container is laid out
   over the rows rendered: its scrollHeight is the height of the body
   (items.length * itemHeight) and never less than its own height, and its
   scrollTop is kept within the scrollable range.  The tracked scrollTop of
   useVirtualScroll, which checkForLoadMore does not read, is left to
   ScrollSpec. *)

\* :container-height and :item-height as App passes them
TableContainerHeight == 600

TableItemHeight == 60

\* isNearBottom(100)
NearBottomThreshold == 100

\* a dataset of MaxTableRows loans, enough to overflow the container
TableData ==
    [i \in 1..MaxTableRows |-> Loan(i, StrAl, 100, StrApproved, Date0101)]

TableDatasets == {TableData, Data1}

\* the offsets the user scrolls to, clipped to the scrollable range
TableOffsets == {0, 120, 240}

layout(el, rows) ==
    LET scrollHeight == Max(TableContainerHeight, rows * TableItemHeight)
    IN  [scrollTop |-> Min(el.scrollTop, scrollHeight - TableContainerHeight),
         scrollHeight |-> scrollHeight,
         clientHeight |-> TableContainerHeight]

isNearBottom(scrollElement, threshold) ==
    IF scrollElement = None THEN FALSE
    ELSE LET el == scrollElement[1]
         IN  el.scrollHeight - (el.scrollTop + el.clientHeight) < threshold

\* App renders after a store action: the props of VirtualTable are read
\* (totalFilteredCount and hasMoreData read the view) and the rows laid out
render(w) ==
    LET s == filteredAndSortedLoans(w.store)
    IN  [w EXCEPT !.store = s,
                  !.table.element = Some(layout(w.table.element[1], Len(s.loadedLoans)))]

\* emit("load-more"), noted with the state it is emitted in
emitLoadMore(w, path) ==
    LET el == w.table.element[1]
    IN  [w EXCEPT !.table.emitted =
             Append(@, [path |-> path,
                        hasMoreData |-> hasMoreData(w.store),
                        isLoading |-> w.isLoading,
                        inFlight |-> w.inFlight,
                        loaded |-> w.store.paginationState.loadedRowsCount,
                        total |-> totalFilteredCount(w.store),
                        distance |-> el.scrollHeight - (el.scrollTop + el.clientHeight)])]

RECURSIVE checkForLoadMore(_, _)

\* the watcher of props.items.length, which checks again after nextTick
itemsLengthChanged(w, oldLength) ==
    IF Len(w.store.loadedLoans) > oldLength /\ w.table.element # None
    THEN checkForLoadMore(w, "watch")
    ELSE w

\* handleLoadMore of App: loadNextPage, then the render and the watcher
handleLoadMore(w) ==
    itemsLengthChanged(render([w EXCEPT !.store = loadNextPage(@)]),
                       Len(w.store.loadedLoans))

checkForLoadMore(w, path) ==
    IF hasMoreData(w.store) /\ ~w.isLoading
       /\ isNearBottom(w.table.element, NearBottomThreshold)
    THEN handleLoadMore(emitLoadMore(w, path))
    ELSE w

\* the store, the table and the load in progress, for the operators above
World(s, loading, flying) ==
    [store |-> s, table |-> [scroller[1] EXCEPT !.emitted = <<>>],
     isLoading |-> loading, inFlight |-> flying]

\* App mounted on the new store, the table over no rows.  The template has no
\* element with ref="loadTrigger", so onMounted creates no IntersectionObserver.
TableInit ==
    /\ StoreAtRest
    /\ filterCall = None
    /\ rangeCall = None
    /\ debounced = None
    /\ throttled = None
    /\ panel = None
    /\ header = None
    /\ keyed = None
    /\ row = None
    /\ scroller = Some([element |-> Some(layout([scrollTop |-> 0], 0)),
                        handler |-> throttle(TableScrollThrottle),
                        emitted |-> <<>>])

TableUnchanged == UNCHANGED <<sortVars, filterCall, rangeCall, debounced, throttled, panel, header, keyed, row>>

(* response.json() resolves under App *)
TableJsonResolved ==
    /\ pending.parsing > 0
    /\ pending' = [pending EXCEPT !.parsing = @ - 1]
    /\ \E data \in TableDatasets :
           LET s == loadNextPage(triggerAllLoans([Cur EXCEPT !.allLoans = data]))
               w == itemsLengthChanged(
                        render(World(s, FALSE, pending.fetching + pending.parsing - 1)),
                        Len(loadedLoans))
           IN  /\ Commit(w.store)
               /\ scroller' = Some(w.table)
               /\ last' = Op("loadInitialData:done", Some(data))
    /\ isLoading' = FALSE
    /\ calls' = IF calls = Some(0) THEN Some(1) ELSE None
    /\ UNCHANGED <<error, loads, failures, slate>>
    /\ TableUnchanged

(* the page size picked in LoanFilters: handlePageSizeChange *)
TableSetPageSize ==
    /\ \E newPageSize \in PageSizes :
           LET w == itemsLengthChanged(
                        render(World(setPageSize(Cur, newPageSize), isLoading,
                                     pending.fetching + pending.parsing)),
                        Len(loadedLoans))
           IN  /\ Commit(w.store)
               /\ scroller' = Some(w.table)
               /\ last' = Op("setPageSize", Some(newPageSize))
    /\ calls' = None
    /\ slate' = None
    /\ UNCHANGED <<isLoading, error, pending, loads, failures>>
    /\ TableUnchanged

(* a scroll event on the container: handleScroll *)
TableScroll ==
    /\ \E offset \in TableOffsets :
           LET el == scroller[1].element[1]
               moved == [el EXCEPT !.scrollTop = Min(offset, el.scrollHeight - el.clientHeight)]
               call == throttledCall(scroller[1].handler, <<>>)
               w0 == World(Cur, isLoading, pending.fetching + pending.parsing)
               w1 == [w0 EXCEPT !.table.element = Some(moved), !.table.handler = call.fn]
               w == IF call.invoke = None
                    THEN [w1 EXCEPT !.table.emitted = scroller[1].emitted]
                    ELSE checkForLoadMore(w1, "scroll")
           IN  /\ Commit(IF w.table.emitted = <<>> \/ call.invoke = None
                         THEN [w.store EXCEPT !.trace = trace]
                         ELSE w.store)
               /\ scroller' = Some(w.table)
               /\ IF w.table.emitted = <<>> \/ call.invoke = None
                  THEN UNCHANGED <<last, calls, slate>>
                  ELSE /\ last' = Op("loadNextPage", None)
                       /\ calls' = countCall
                       /\ slate' = None
    /\ UNCHANGED <<isLoading, error, pending, loads, failures>>
    /\ TableUnchanged

TableHandlerTimeout ==
    /\ \E t \in Due(scroller[1].handler.timers) :
           scroller' = Some([scroller[1] EXCEPT !.handler = throttledTimeout(@, t)])
    /\ UNCHANGED storeVars
    /\ TableUnchanged

TableElapse ==
    /\ scroller[1].handler.timers # {}
    /\ CanElapse(scroller[1].handler.timers, 100)
    /\ scroller' = Some([scroller[1] EXCEPT !.handler.timers = Elapse(@, 100)])
    /\ UNCHANGED storeVars
    /\ TableUnchanged

TableNext ==
    \/ LoadInitialDataStart
    \/ FetchOk
    \/ TableJsonResolved
    \/ TableSetPageSize
    \/ TableScroll
    \/ TableHandlerTimeout
    \/ TableElapse

TableSpec == TableInit /\ [][TableNext]_vars

-----------------------------------------------------------------------------
(* useVirtualScroll on its own: the ref scrollTop, the ref scrollElement and
   the throttled onScroll.  An element is the object the tests attach: it
   holds the scrollTop assigned to it. *)

\* the offsets an element is scrolled to, and the rows scrollToIndex is called with
ElementOffsets == {0, 120, 500}

ScrollIndexes == {0, 2}

useVirtualScroll ==
    [scrollTop |-> 0, scrollElement |-> None, onScroll |-> throttle(ScrollThrottle),
     did |-> [op |-> "setup", arg |-> 0, before |-> None]]

\* the throttled onScroll called with an event whose target is `target`
onScroll(v, target) ==
    LET call == throttledCall(v.onScroll, <<>>)
    IN  IF call.invoke = None THEN v
        ELSE [v EXCEPT !.onScroll = call.fn,
                       !.scrollTop = IF target = None THEN 0 ELSE target[1].scrollTop]

\* scrollElement.value = el, and the watcher of scrollElement
attach(v, el) ==
    LET reset == [v EXCEPT !.scrollElement = Some([el EXCEPT !.scrollTop = 0]),
                           !.scrollTop = 0]
    IN  onScroll(reset, reset.scrollElement)

scrollToTop(v) ==
    IF v.scrollElement # None
    THEN [v EXCEPT !.scrollElement = Some([@[1] EXCEPT !.scrollTop = 0]), !.scrollTop = 0]
    ELSE v

scrollToIndex(v, index) ==
    IF v.scrollElement # None
    THEN LET targetScrollTop == index * TableItemHeight
         IN  [v EXCEPT !.scrollElement = Some([@[1] EXCEPT !.scrollTop = targetScrollTop]),
                       !.scrollTop = targetScrollTop]
    ELSE v

\* what is kept of an operation for the properties
noted(v, op, arg, after) ==
    [after EXCEPT !.did = [op |-> op, arg |-> arg,
                           before |-> Some([scrollTop |-> v.scrollTop,
                                            scrollElement |-> v.scrollElement])]]

VsInit ==
    /\ StoreAtRest
    /\ filterCall = None
    /\ rangeCall = None
    /\ debounced = None
    /\ throttled = None
    /\ panel = None
    /\ header = None
    /\ keyed = None
    /\ row = None
    /\ scroller = Some(useVirtualScroll)

VsUnchanged ==
    UNCHANGED <<storeVars, sortVars, filterCall, rangeCall, debounced, throttled,
                panel, header, keyed, row>>

(* an element, scrolled somewhere, is attached *)
VsAttach ==
    /\ scroller[1].scrollElement = None
    /\ \E offset \in ElementOffsets :
           scroller' = Some(noted(scroller[1], "attach", offset,
                                  attach(scroller[1], [scrollTop |-> offset])))
    /\ VsUnchanged

VsScrollToTop ==
    /\ scroller' = Some(noted(scroller[1], "scrollToTop", 0, scrollToTop(scroller[1])))
    /\ VsUnchanged

VsScrollToIndex ==
    /\ \E index \in ScrollIndexes :
           scroller' = Some(noted(scroller[1], "scrollToIndex", index,
                                  scrollToIndex(scroller[1], index)))
    /\ VsUnchanged

(* the element is scrolled and onScroll is called with the scroll event *)
VsOnScroll ==
    /\ scroller[1].scrollElement # None
    /\ \E offset \in ElementOffsets :
           LET moved == [scroller[1] EXCEPT !.scrollElement = Some([scrollTop |-> offset])]
           IN  scroller' = Some(noted(scroller[1], "onScroll", offset,
                                      onScroll(moved, moved.scrollElement)))
    /\ VsUnchanged

VsOnScrollTimeout ==
    /\ \E t \in Due(scroller[1].onScroll.timers) :
           scroller' = Some([scroller[1] EXCEPT !.onScroll = throttledTimeout(@, t)])
    /\ VsUnchanged

VsElapse ==
    /\ scroller[1].onScroll.timers # {}
    /\ CanElapse(scroller[1].onScroll.timers, 1)
    /\ scroller' = Some([scroller[1] EXCEPT !.onScroll.timers = Elapse(@, 1)])
    /\ VsUnchanged

VsNext ==
    \/ VsAttach
    \/ VsScrollToTop
    \/ VsScrollToIndex
    \/ VsOnScroll
    \/ VsOnScrollTimeout
    \/ VsElapse

VsSpec == VsInit /\ [][VsNext]_vars

-----------------------------------------------------------------------------
(* LoanTableHeader: the column headers, and the sort event on its way through
   VirtualTable.handleSort and App.handleSort to setSortState *)

\* event.key of the keydown events sent to a header cell
Keys == {"Enter", " ", "Tab"}

\* the header cells activated
HeaderColumns == {"id", "amount", "status"}

getSortDirection(props, columnKey) ==
    IF props.sortState.column = Some(columnKey) THEN props.sortState.direction ELSE "none"

\* variant: 'desc' followed by 'asc'
getNextSortDirectionNoNone(currentDirection) ==
    IF currentDirection = "asc" THEN "desc" ELSE "asc"

getNextSortDirection(currentDirection) ==
    CASE currentDirection = "none" -> "asc"
      [] currentDirection = "asc" -> "desc"
      [] currentDirection = "desc" -> "none"
      [] OTHER -> "asc"

\* handleSort of the header: the arguments of the sort event it emits
handleSort(props, columnKey) ==
    LET currentDirection == getSortDirection(props, columnKey)
        nextDirection == getNextSortDirection(currentDirection)
    IN  [column |-> columnKey, direction |-> nextDirection]

\* the event emitted for a keydown, None when the key is ignored
handleKeydown(props, key, columnKey) ==
    IF key = "Enter" \/ key = " " THEN Some(handleSort(props, columnKey)) ELSE None

\* the activations the header remembers here: the last three
remember(log, entry) ==
    IF Len(log) < 3 THEN Append(log, entry) ELSE Append(Tail(log), entry)

\* the store after its first load, the header mounted with sortState as prop
HeaderInit ==
    /\ FirstLoadDone
    /\ debounced = None
    /\ throttled = None
    /\ scroller = None
    /\ panel = None
    /\ header = Some([log |-> <<>>])
    /\ keyed = None
    /\ row = None

\* the sort event relayed by VirtualTable to App.handleSort, which calls
\* setSortState; the header's prop is the store's sortState
emitSort(via, columnKey, event) ==
    /\ Commit(setSortState(Cur, event.column, event.direction))
    /\ header' = Some([log |-> remember(header[1].log,
                                        [via |-> via, column |-> columnKey,
                                         before |-> sortState, emitted |-> event])])
    /\ last' = Op("setSortState", None)
    /\ calls' = Some(1)
    /\ slate' = None
    /\ UNCHANGED <<isLoading, error, pending, loads, failures, sortVars, filterCall,
                   rangeCall, debounced, throttled, scroller, panel, keyed, row>>

(* a click on a header cell *)
HeaderClick ==
    \E columnKey \in HeaderColumns :
        emitSort("click", columnKey, handleSort([sortState |-> sortState], columnKey))

(* a keydown on a header cell *)
HeaderKeydown ==
    \E key \in Keys, columnKey \in HeaderColumns :
        LET event == handleKeydown([sortState |-> sortState], key, columnKey)
        IN  IF event = None THEN UNCHANGED vars
            ELSE emitSort(key, columnKey, event[1])

HeaderNext ==
    \/ HeaderClick
    \/ HeaderKeydown

HeaderSpec == HeaderInit /\ [][HeaderNext]_vars

-----------------------------------------------------------------------------
(* LoanFilters under App: v-model="filterValues", the watcher of App that
   hands the model to setFilter, and the watcher of LoanFilters that copies
   props.modelValue into the local refs.  Both watchers run before the next
   event or timer callback. *)

\* what the user enters in the controls
SearchTexts == {StrAl}

StatusChoices == {StrApproved}

MinAmounts == {0, 100}

MaxAmounts == {500}

StartDates == {Date0101}

\* the time steps of this specification
PanelTimeSteps == {100}

\* value || undefined, for a number
numberOrUndefined(v) == IF v = Some(0) THEN None ELSE v

\* value || undefined, for a string
stringOrUndefined(v) == IF v = Some(StrEmpty) THEN None ELSE v

\* the local refs as the script sets them up, and the two debounced handlers
LoanFilters(modelValue) ==
    [modelValue |-> modelValue,
     searchInput |-> modelValue.search, statusFilter |-> modelValue.status,
     minAmount |-> modelValue.minAmount, maxAmount |-> modelValue.maxAmount,
     startDate |-> modelValue.startDate, endDate |-> modelValue.endDate,
     debouncedSearchUpdate |-> debounce(SearchWait),
     debouncedAmountUpdate |-> debounce(AmountWait),
     emitted |-> None, cleared |-> FALSE,
     typed |-> [minAmount |-> modelValue.minAmount, maxAmount |-> modelValue.maxAmount],
     shot |-> None]

\* a call of a handler: the instance afterwards and the model it emitted, if any
Quiet(p) == [panel |-> p, emit |-> None]

Emit(p, value) == [panel |-> p, emit |-> Some(value)]

\* an edit by the user, for the properties
edited(p) == [p EXCEPT !.cleared = FALSE]

\* v-model has written the text to searchInput
handleSearchInput(p, text) ==
    Quiet([edited(p) EXCEPT !.searchInput = text,
                            !.debouncedSearchUpdate = debouncedCall(@, <<text>>)])

\* the callback of debouncedSearchUpdate
searchUpdate(p, value) == Emit(p, [p.modelValue EXCEPT !.search = value])

handleStatusChange(p, status) ==
    Emit([edited(p) EXCEPT !.statusFilter = status],
         [p.modelValue EXCEPT !.status = status])

\* v-model.number has written the number to minAmount or maxAmount
handleAmountChange(p, box, amount) ==
    Quiet([edited(p) EXCEPT ![box] = Some(amount),
                            !.typed[box] = Some(amount),
                            !.shot = None,
                            !.debouncedAmountUpdate = debouncedCall(@, <<>>)])

\* the callback of debouncedAmountUpdate
amountUpdate(p) ==
    LET value == [p.modelValue EXCEPT !.minAmount = numberOrUndefined(p.minAmount),
                                      !.maxAmount = numberOrUndefined(p.maxAmount)]
    IN  Emit([p EXCEPT !.shot = Some(value)], value)

handleDateChange(p, date) ==
    Emit([edited(p) EXCEPT !.startDate = Some(date)],
         [p.modelValue EXCEPT !.startDate = stringOrUndefined(Some(date)),
                              !.endDate = stringOrUndefined(p.endDate)])

clearAllFilters(p) ==
    Emit([p EXCEPT !.searchInput = StrEmpty, !.statusFilter = StrAll,
                   !.minAmount = None, !.maxAmount = None,
                   !.startDate = None, !.endDate = None,
                   !.cleared = TRUE,
                   !.typed = [minAmount |-> None, maxAmount |-> None]],
         DefaultFilter)

\* filterValues = $event in App, then the watcher of props.modelValue
modelValueChanged(p, newValue) ==
    [p EXCEPT !.modelValue = newValue, !.emitted = Some(newValue),
              !.searchInput = newValue.search, !.statusFilter = newValue.status,
              !.minAmount = newValue.minAmount, !.maxAmount = newValue.maxAmount,
              !.startDate = newValue.startDate, !.endDate = newValue.endDate]

\* App and LoanFilters mounted, the first load done
PanelInit ==
    /\ FirstLoadDone
    /\ debounced = None
    /\ throttled = None
    /\ scroller = None
    /\ header = None
    /\ keyed = None
    /\ row = None
    /\ panel = Some(LoanFilters(DefaultFilter))

\* the effect of a handler or timer callback r, the watchers included
PanelStep(r) ==
    /\ IF r.emit = None
       THEN /\ panel' = Some(r.panel)
            /\ UNCHANGED storeVars
       ELSE /\ panel' = Some(modelValueChanged(r.panel, r.emit[1]))
            /\ Commit(setFilter(Cur, r.emit[1]))
            /\ last' = Op("setFilter", None)
            /\ calls' = Some(1)
            /\ slate' = None
            /\ UNCHANGED <<isLoading, error, pending, loads, failures>>
    /\ UNCHANGED <<sortVars, filterCall, rangeCall, debounced, throttled, scroller, header, keyed, row>>

(* the user types in the search box *)
SearchInput == \E text \in SearchTexts : PanelStep(handleSearchInput(panel[1], text))

(* the user picks a status *)
StatusChange == \E status \in StatusChoices : PanelStep(handleStatusChange(panel[1], status))

(* the user types in the minimum or the maximum amount box *)
AmountInput ==
    \/ \E amount \in MinAmounts : PanelStep(handleAmountChange(panel[1], "minAmount", amount))
    \/ \E amount \in MaxAmounts : PanelStep(handleAmountChange(panel[1], "maxAmount", amount))

(* the user picks a start date *)
DateChange == \E date \in StartDates : PanelStep(handleDateChange(panel[1], date))

(* the user clicks Clear All Filters *)
ClearAllFilters == PanelStep(clearAllFilters(panel[1]))

(* the timer of debouncedSearchUpdate runs *)
SearchTimeout ==
    \E t \in Due(panel[1].debouncedSearchUpdate.timers) :
        LET r == debouncedTimeout(panel[1].debouncedSearchUpdate, t)
        IN  PanelStep(searchUpdate([panel[1] EXCEPT !.debouncedSearchUpdate = r.fn],
                                   r.invoke[1][1]))

(* the timer of debouncedAmountUpdate runs *)
AmountTimeout ==
    \E t \in Due(panel[1].debouncedAmountUpdate.timers) :
        LET r == debouncedTimeout(panel[1].debouncedAmountUpdate, t)
        IN  PanelStep(amountUpdate([panel[1] EXCEPT !.debouncedAmountUpdate = r.fn]))

PanelElapse ==
    \E ms \in PanelTimeSteps :
        /\ panel[1].debouncedSearchUpdate.timers \cup panel[1].debouncedAmountUpdate.timers # {}
        /\ CanElapse(panel[1].debouncedSearchUpdate.timers, ms)
        /\ CanElapse(panel[1].debouncedAmountUpdate.timers, ms)
        /\ panel' = Some([panel[1] EXCEPT
                              !.debouncedSearchUpdate.timers = Elapse(@, ms),
                              !.debouncedAmountUpdate.timers = Elapse(@, ms)])
        /\ UNCHANGED <<storeVars, sortVars, filterCall, rangeCall, debounced, throttled,
                       scroller, header, keyed, row>>

PanelNext ==
    \/ SearchInput
    \/ StatusChange
    \/ AmountInput
    \/ DateChange
    \/ ClearAllFilters
    \/ SearchTimeout
    \/ AmountTimeout
    \/ PanelElapse

PanelSpec == PanelInit /\ [][PanelNext]_vars

-----------------------------------------------------------------------------
(* getCacheKey as text: JSON.stringify({ filters, sortColumn, sortDirection }).
   An object is the sequence of its own properties in insertion order, each a
   pair <<name, value>> with value None for undefined; the text is a sequence
   of code units, as the strings of the model are. *)

\* the code units of the names and words that occur in a key
Units(text) ==
    CASE text = "search" -> <<115, 101, 97, 114, 99, 104>>
      [] text = "status" -> <<115, 116, 97, 116, 117, 115>>
      [] text = "minAmount" -> <<109, 105, 110, 65, 109, 111, 117, 110, 116>>
      [] text = "maxAmount" -> <<109, 97, 120, 65, 109, 111, 117, 110, 116>>
      [] text = "startDate" -> <<115, 116, 97, 114, 116, 68, 97, 116, 101>>
      [] text = "endDate" -> <<101, 110, 100, 68, 97, 116, 101>>
      [] text = "filters" -> <<102, 105, 108, 116, 101, 114, 115>>
      [] text = "sortColumn" -> <<115, 111, 114, 116, 67, 111, 108, 117, 109, 110>>
      [] text = "sortDirection" -> <<115, 111, 114, 116, 68, 105, 114, 101, 99, 116, 105, 111, 110>>
      [] text = "asc" -> <<97, 115, 99>>
      [] text = "desc" -> <<100, 101, 115, 99>>
      [] text = "none" -> <<110, 111, 110, 101>>
      [] text = "null" -> <<110, 117, 108, 108>>
      [] text = "id" -> <<105, 100>>
      [] text = "borrowerName" -> <<98, 111, 114, 114, 111, 119, 101, 114, 78, 97, 109, 101>>
      [] text = "amount" -> <<97, 109, 111, 117, 110, 116>>
      [] text = "closeDate" -> <<99, 108, 111, 115, 101, 68, 97, 116, 101>>

\* a text of one quotation mark
StrQuote == <<34>>

Prop(name, value) == <<name, value>>

\* variant: the optional properties not written in the literal
InitialFilterObjectNoBounds ==
    << Prop("search", Some(StrEmpty)), Prop("status", Some(StrAll)) >>

\* the object filterState starts as: six own properties
InitialFilterObject ==
    << Prop("search", Some(StrEmpty)), Prop("status", Some(StrAll)),
       Prop("minAmount", None), Prop("maxAmount", None),
       Prop("startDate", None), Prop("endDate", None) >>

HasOwn(obj, name) == \E i \in DOMAIN obj : obj[i][1] = name

\* obj[name], undefined when obj has no such property
Get(obj, name) ==
    IF HasOwn(obj, name)
    THEN obj[CHOOSE i \in DOMAIN obj : obj[i][1] = name][2]
    ELSE None

\* obj[name] = value: an own property keeps its place, a new one goes last
Put(obj, name, value) ==
    IF HasOwn(obj, name)
    THEN [i \in DOMAIN obj |-> IF obj[i][1] = name THEN Prop(name, value) ELSE obj[i]]
    ELSE Append(obj, Prop(name, value))

\* { ...a, ...b }
RECURSIVE spread(_, _)
spread(a, b) ==
    IF b = <<>> THEN a
    ELSE spread(Put(a, b[1][1], b[1][2]), Tail(b))

\* the record the store model keeps for an object
AsFilterState(obj) ==
    [search |-> Get(obj, "search")[1], status |-> Get(obj, "status")[1],
     minAmount |-> Get(obj, "minAmount"), maxAmount |-> Get(obj, "maxAmount"),
     startDate |-> Get(obj, "startDate"), endDate |-> Get(obj, "endDate")]

\* the decimal digits of a natural number
RECURSIVE numberToString(_)
numberToString(n) ==
    IF n < 10 THEN <<48 + n>>
    ELSE Append(numberToString(n \div 10), 48 + (n % 10))

\* a string value as JSON text: quotation mark and backslash escaped
RECURSIVE escapeUnits(_)
escapeUnits(s) ==
    IF s = <<>> THEN <<>>
    ELSE (IF s[1] = 34 \/ s[1] = 92 THEN <<92, s[1]>> ELSE <<s[1]>>) \o escapeUnits(Tail(s))

quote(s) == <<34>> \o escapeUnits(s) \o <<34>>

\* the properties of an object as JSON text, those with value undefined left out
RECURSIVE stringifyProps(_, _)
stringifyProps(obj, first) ==
    IF obj = <<>> THEN <<>>
    ELSE LET name == obj[1][1]
             value == obj[1][2]
             text == IF name \in {"minAmount", "maxAmount"}
                     THEN numberToString(value[1])
                     ELSE quote(value[1])
         IN  IF value = None THEN stringifyProps(Tail(obj), first)
             ELSE (IF first THEN <<>> ELSE <<44>>)
                  \o quote(Units(name)) \o <<58>> \o text
                  \o stringifyProps(Tail(obj), FALSE)

stringifyObject(obj) == <<123>> \o stringifyProps(obj, TRUE) \o <<125>>

\* getCacheKey(filters, sortColumn, sortDirection), the string
getCacheKeyText(filters, sortColumn, sortDirection) ==
    <<123>> \o quote(Units("filters")) \o <<58>> \o stringifyObject(filters)
    \o <<44>> \o quote(Units("sortColumn")) \o <<58>>
    \o (IF sortColumn = None THEN Units("null") ELSE quote(Units(sortColumn[1])))
    \o <<44>> \o quote(Units("sortDirection")) \o <<58>> \o quote(Units(sortDirection))
    \o <<125>>

\* the arguments of setFilter, as objects
KeyPartials ==
    { << Prop("minAmount", Some(150)) >>, << Prop("minAmount", None) >>,
      << Prop("maxAmount", Some(15)) >>,
      << Prop("maxAmount", Some(15)), Prop("minAmount", Some(150)) >>,
      << Prop("search", Some(StrAl)) >>, << Prop("search", Some(StrQuote)) >>,
      << Prop("status", Some(StrApproved)) >>,
      InitialFilterObject }

KeySorts ==
    { [column |-> Some("amount"), direction |-> "asc"],
      [column |-> Some("amount"), direction |-> "none"],
      [column |-> Some("status"), direction |-> "asc"] }

\* the filter and sort state of a store, with the name set last
KeyHolder ==
    [filters |-> InitialFilterObject,
     sort |-> [column |-> None, direction |-> "none"],
     lastSet |-> "none"]

KeyInit ==
    /\ StoreAtRest
    /\ filterCall = None
    /\ rangeCall = None
    /\ debounced = None
    /\ throttled = None
    /\ scroller = None
    /\ panel = None
    /\ header = None
    /\ row = None
    /\ keyed = Some([a |-> KeyHolder, b |-> KeyHolder])

KeyUnchanged ==
    UNCHANGED <<storeVars, sortVars, filterCall, rangeCall, debounced, throttled,
                scroller, panel, header, row>>

(* setFilter on one of the two states: filterState.value = { ...filterState.value, ...newFilter } *)
KeySetFilter ==
    /\ \E side \in {"a", "b"}, newFilter \in KeyPartials :
           keyed' = Some([keyed[1] EXCEPT ![side].filters = spread(@, newFilter),
                                          ![side].lastSet = newFilter[1][1]])
    /\ KeyUnchanged

(* setSortState on one of the two states *)
KeySetSortState ==
    /\ \E side \in {"a", "b"}, newSort \in KeySorts :
           keyed' = Some([keyed[1] EXCEPT ![side].sort = newSort])
    /\ KeyUnchanged

KeyNext ==
    \/ KeySetFilter
    \/ KeySetSortState

KeySpec == KeyInit /\ [][KeyNext]_vars

-----------------------------------------------------------------------------
(* The rows of the table: LoanTableRow (part_001:1-60) under VirtualTable's
   v-for (part_001:260-267) and the application's handler of row-select
   (useLoanStore.ts:271-273).  row holds the rendered items, the last event a
   row handled and the log of the select events with what each became. *)

RowItems == {DataA, Data1, Data2}

RowKeys == {"Enter", " ", "Tab"}

\* the <tr> of the row at an index of the v-for: the target of its key events;
\* it has no id attribute
RowElement(index) == [tagName |-> "TR", id |-> StrEmpty, rowIndex |-> index]

\* object.name, undefined when the object has no such property
Read(object, name) == IF name \in DOMAIN object THEN Some(object[name]) ELSE None

\* @click="$emit('select', loan)"
rowClick(loan) == [prevented |-> FALSE, select |-> Some(loan)]

\* LoanTableRow's handleKeydown: emit("select", event.target as any)
rowKeydown(loan, target, key) ==
    IF key = "Enter" \/ key = " "
    THEN [prevented |-> TRUE, select |-> Some(target)]
    ELSE [prevented |-> FALSE, select |-> None]

\* VirtualTable's handleRowSelect: emit("row-select", loan)
tableRowSelect(payload) == payload

\* the application's handleRowSelect: the notification
\* `Selected loan #${loan.id} for ${loan.borrowerName}`
appRowSelect(payload) ==
    [type |-> "info", id |-> Read(payload, "id"),
     borrowerName |-> Read(payload, "borrowerName")]

\* a row's handler has run: the event it emitted goes up to the application
handled(r, index, by, outcome) ==
    LET entry == [from |-> index, by |-> by, select |-> outcome.select[1],
                  rowSelect |-> tableRowSelect(outcome.select[1]),
                  notification |-> appRowSelect(tableRowSelect(outcome.select[1]))]
    IN  [r EXCEPT !.did = [index |-> index, by |-> by, prevented |-> outcome.prevented],
                  !.log = IF outcome.select = None THEN @ ELSE Append(@, entry)]

RowInit ==
    /\ StoreAtRest
    /\ filterCall = None
    /\ rangeCall = None
    /\ debounced = None
    /\ throttled = None
    /\ scroller = None
    /\ panel = None
    /\ header = None
    /\ keyed = None
    /\ \E items \in RowItems :
           row = Some([items |-> items, did |-> None, log |-> <<>>])

RowUnchanged ==
    UNCHANGED <<storeVars, sortVars, filterCall, rangeCall, debounced, throttled,
                scroller, panel, header, keyed>>

RowClick ==
    /\ Len(row[1].log) < MaxRowEvents
    /\ \E index \in 0..(Len(row[1].items) - 1) :
           row' = Some(handled(row[1], index, "click", rowClick(row[1].items[index + 1])))
    /\ RowUnchanged

RowKeydown ==
    /\ Len(row[1].log) < MaxRowEvents
    /\ \E index \in 0..(Len(row[1].items) - 1), key \in RowKeys :
           row' = Some(handled(row[1], index, key,
                               rowKeydown(row[1].items[index + 1], RowElement(index), key)))
    /\ RowUnchanged

RowNext ==
    \/ RowClick
    \/ RowKeydown

RowSpec == RowInit /\ [][RowNext]_vars

-----------------------------------------------------------------------------
(* Properties of sortLoans, under SortSpec *)

ids(loans) == [i \in DOMAIN loans |-> loans[i].id]

\* the sort-key values of a and b compare equal (strings: ignoring case)
KeysTie(a, b, column) ==
    /\ ~ValLess(a[column], b[column], column)
    /\ ~ValLess(b[column], a[column], column)

\* the rearrangements of a list
Perms(s) == {[i \in DOMAIN s |-> s[f[i]]] : f \in Permutations(DOMAIN s)}

Count(s, x) == Cardinality({i \in DOMAIN s : s[i] = x})

IsPermutationOf(r, s) ==
    /\ Len(r) = Len(s)
    /\ \A x \in Range(r) \cup Range(s) : Count(r, x) = Count(s, x)

Sorting == sortArgs # None /\ sortArgs[1].column # None
           /\ sortArgs[1].direction \in {"asc", "desc"}

\* C8: for every list with unique ids and every column, two records of the
\* result whose sort-key values compare equal stand in ascending id order,
\* with direction 'asc' and with direction 'desc'.
C8_TiesByAscendingId ==
    (sortResult # None /\ Sorting) =>
        LET r == sortResult[1]
            column == sortArgs[1].column[1]
        IN  \A i, j \in DOMAIN r :
                (i < j /\ KeysTie(r[i], r[j], column)) => r[i].id < r[j].id

\* C9: for a non-null column and direction 'asc' or 'desc' the result is a
\* permutation of the input whose column values, strings taken ignoring case,
\* are non-decreasing (asc) or non-increasing (desc); ids 1..5 with amounts
\* 100, 100, 50, 200, 50 sorted by amount ascending give ids 3, 5, 1, 2, 4.
C9_SortedPermutation ==
    (sortResult # None /\ Sorting) =>
        LET r == sortResult[1]
            a == sortArgs[1]
            column == a.column[1]
        IN  /\ IsPermutationOf(r, a.loans)
            /\ a.direction = "asc" =>
                   \A i, j \in DOMAIN r :
                       i < j => ~ValLess(r[j][column], r[i][column], column)
            /\ a.direction = "desc" =>
                   \A i, j \in DOMAIN r :
                       i < j => ~ValLess(r[i][column], r[j][column], column)
            /\ (a.loans = DataA /\ column = "amount" /\ a.direction = "asc") =>
                   ids(r) = <<3, 5, 1, 2, 4>>

\* the five records sorted by amount ascending
C9_Witness ==
    /\ sortResult # None
    /\ sortArgs[1] = [loans |-> DataA, column |-> Some("amount"), direction |-> "asc"]
    /\ ids(sortResult[1]) = <<3, 5, 1, 2, 4>>

\* C10 as claimed: for every list with unique ids, every column and every
\* direction ('none' included), sorting the result again changes nothing and
\* every permutation of the list sorts to the same sequence.
C10_IdempotentOrderInsensitive ==
    /\ sortAgain # None => sortAgain = sortResult
    /\ (sortResult # None /\ sortArgs[1].column # None) =>
           \A p \in Perms(sortArgs[1].loans) :
               sortLoans(p, sortArgs[1].column, sortArgs[1].direction) = sortResult[1]

\* C10 as amended: sorting the result again changes nothing, for every column
\* (null included) and direction; and for a non-null column and direction
\* 'asc' or 'desc' every permutation of the list sorts to the same sequence.
C10_IdempotentOrderInsensitiveWhenSorting ==
    /\ sortAgain # None => sortAgain = sortResult
    /\ (sortResult # None /\ Sorting) =>
           \A p \in Perms(sortArgs[1].loans) :
               sortLoans(p, sortArgs[1].column, sortArgs[1].direction) = sortResult[1]

\* a list with a tie on the amount, not in sorted order, sorted descending and
\* sorted again
C10_Witness ==
    /\ sortAgain # None
    /\ sortArgs[1].column = Some("amount")
    /\ sortArgs[1].direction = "desc"
    /\ sortResult[1] # sortArgs[1].loans
    /\ \E i, j \in DOMAIN sortResult[1] :
           i < j /\ KeysTie(sortResult[1][i], sortResult[1][j], "amount")

\* the array a finished call returned, read from the heap
Returned == IF sortHeap[1].ref = "input" THEN sortHeap[1].heap.input
            ELSE sortHeap[1].heap.copy[1]

\* C11: with a null column or direction 'none' sortLoans returns the input
\* sequence in its original order (so a column cycled back to 'none' shows the
\* rows in the order they were given), and in every case the caller's array
\* is the same after the call as before it.
C11_NoneKeepsOrderInputUntouched ==
    sortResult # None =>
        /\ sortResult[1] = Returned
        /\ sortHeap[1].heap.input = sortArgs[1].loans
        /\ (sortArgs[1].column = None \/ sortArgs[1].direction = "none") =>
               sortResult[1] = sortArgs[1].loans

\* a list that is not in amount order, its column left set and the direction
\* back at 'none': returned as given
C11_Witness ==
    /\ sortResult # None
    /\ sortArgs[1].column = Some("amount")
    /\ sortArgs[1].direction = "none"
    /\ sortLoans(sortArgs[1].loans, Some("amount"), "asc") # sortArgs[1].loans
    /\ sortLoans(sortArgs[1].loans, Some("amount"), "desc") # sortArgs[1].loans
    /\ sortResult[1] = sortArgs[1].loans

-----------------------------------------------------------------------------
(* Properties of filterLoans, under FilterSpec *)

\* r is s with some elements left out, the others in their order
RECURSIVE IsSubSeq(_, _)
IsSubSeq(r, s) ==
    IF r = <<>> THEN TRUE
    ELSE IF s = <<>> THEN FALSE
    ELSE IF Head(r) = Head(s) THEN IsSubSeq(Tail(r), Tail(s))
    ELSE IsSubSeq(r, Tail(s))

Lower(c) == IF c \in 65..90 THEN c + 32 ELSE c

ContainsIgnoringCase(name, text) ==
    \E i \in 1..(Len(name) - Len(text) + 1) :
        \A j \in 1..Len(text) : Lower(name[i + j - 1]) = Lower(text[j])

\* the day a YYYY-MM-DD string names, as the number YYYYMMDD
DateNumber(d) ==
    LET n(i) == d[i] - 48
    IN  (n(1) * 1000 + n(2) * 100 + n(3) * 10 + n(4)) * 10000
        + (n(6) * 10 + n(7)) * 100 + n(9) * 10 + n(10)

\* the record satisfies every constraint the criteria hold
Satisfies(loan, filters) ==
    /\ filters.search # StrEmpty => ContainsIgnoringCase(loan.borrowerName, filters.search)
    /\ filters.status # StrAll => loan.status = filters.status
    /\ filters.minAmount # None => filters.minAmount[1] <= loan.amount
    /\ filters.maxAmount # None => loan.amount <= filters.maxAmount[1]
    /\ filters.startDate # None =>
           DateNumber(filters.startDate[1]) <= DateNumber(loan.closeDate)
    /\ filters.endDate # None =>
           DateNumber(loan.closeDate) <= DateNumber(filters.endDate[1])

ApprovedFrom1000 == [DefaultFilter EXCEPT !.status = StrApproved, !.minAmount = Some(1000)]

\* C12: filterLoans returns exactly the records that satisfy every present
\* constraint (search ignoring case, status unless 'All', inclusive amount and
\* date bounds), in input order, and leaves the input array as it was;
\* {status: 'Approved', minAmount: 1000} keeps the Approved records with
\* amount >= 1000.
C12_FilterKeepsExactlyTheMatching ==
    (filterCall # None /\ filterCall[1].result # None) =>
        LET c == filterCall[1]
            r == c.result[1]
        IN  /\ IsSubSeq(r, c.given)
            /\ Range(r) = {loan \in Range(c.given) : Satisfies(loan, c.filters)}
            /\ c.loans = c.given
            /\ c.filters = ApprovedFrom1000 =>
                   \A i \in DOMAIN c.given :
                       (\E j \in DOMAIN r : r[j] = c.given[i])
                           <=> (c.given[i].status = StrApproved
                                    /\ c.given[i].amount >= 1000)

\* the mixed dataset under {status: 'Approved', minAmount: 1000}: the record
\* with amount 1000 kept, the one with 999 and the other statuses dropped
C12_Witness ==
    /\ filterCall # None
    /\ filterCall[1].given = DataB
    /\ filterCall[1].filters = ApprovedFrom1000
    /\ filterCall[1].result # None
    /\ ids(filterCall[1].result[1]) = <<1, 4>>

\* C13: the result under criteria with one more constraint is a sub-sequence
\* of the result without it, so never longer; and criteria with status 'All'
\* give the result of the same criteria with no status constraint.
C13_FilterMonotone ==
    filterCall # None =>
        LET c == filterCall[1]
        IN  /\ c.more # None =>
                   /\ IsSubSeq(c.more[1], c.result[1])
                   /\ Len(c.more[1]) <= Len(c.result[1])
            /\ (c.result # None /\ c.filters.status = StrAll) =>
                   c.result[1] = filterLoans(c.given, [c.filters EXCEPT !.status = StrEmpty])

\* a constraint added to criteria with status 'All' that drops some of the
\* records kept before, not all
C13_Witness ==
    /\ filterCall # None
    /\ filterCall[1].more # None
    /\ filterCall[1].filters.status = StrAll
    /\ filterCall[1].more[1] # <<>>
    /\ Len(filterCall[1].more[1]) < Len(filterCall[1].result[1])

-----------------------------------------------------------------------------
(* Properties of calculateVisibleRange, under RangeSpec *)

\* floor(a / b): the integer q with q * b <= a < (q + 1) * b
FloorOf(a, b) == CHOOSE q \in 0..a : q * b <= a /\ a < (q + 1) * b

\* ceil(a / b): the integer q with (q - 1) * b < a <= q * b
CeilOf(a, b) == CHOOSE q \in 0..a : (q - 1) * b < a /\ a <= q * b

RangeDone == rangeCall # None /\ rangeCall[1].result # None

\* C14: startIndex = max(0, floor(scrollTop / itemHeight) - overscan) and
\* endIndex = min(totalItems - 1, ceil((scrollTop + containerHeight) /
\* itemHeight) + overscan), the overscan being 5 when left out; the same
\* arguments give the same range; (200, 100, 20, 200, 5) gives 5 and 20.
C14_VisibleRangeFormula ==
    RangeDone =>
        LET a == rangeCall[1].args
            r == rangeCall[1].result[1]
            o == IF a.overscan = None THEN 5 ELSE a.overscan[1]
            first == FloorOf(a.scrollTop, a.itemHeight) - o
            lastRow == CeilOf(a.scrollTop + a.containerHeight, a.itemHeight) + o
        IN  /\ r.startIndex = (IF first > 0 THEN first ELSE 0)
            /\ r.endIndex = (IF lastRow < a.totalItems - 1 THEN lastRow
                             ELSE a.totalItems - 1)
            /\ rangeCall[1].again # None => rangeCall[1].again[1] = r
            /\ a = ScenarioD => r = [startIndex |-> 5, endIndex |-> 20]

\* Scenario D computed, twice
C14_Witness ==
    /\ RangeDone
    /\ rangeCall[1].args = ScenarioD
    /\ rangeCall[1].result[1] = [startIndex |-> 5, endIndex |-> 20]
    /\ rangeCall[1].again # None

\* C15: the range is empty (endIndex < startIndex) or 0 <= startIndex <=
\* endIndex <= totalItems - 1; endIndex < totalItems; no rows give an empty
\* range; the rows mounted are the rows startIndex..endIndex of the buffer.
C15_RangeWithinBuffer ==
    RangeDone =>
        LET a == rangeCall[1].args
            r == rangeCall[1].result[1]
        IN  /\ \/ r.endIndex < r.startIndex
               \/ 0 <= r.startIndex /\ r.startIndex <= r.endIndex
                    /\ r.endIndex <= a.totalItems - 1
            /\ r.endIndex < a.totalItems
            /\ a.totalItems = 0 => r.endIndex < r.startIndex
            /\ rangeCall[1].mounted # None =>
                   LET m == rangeCall[1].mounted[1]
                   IN  /\ \A i \in DOMAIN m : m[i] \in 0..(a.totalItems - 1)
                       /\ r.endIndex < r.startIndex => m = <<>>
                       /\ r.endIndex >= r.startIndex =>
                              m = [i \in 1..(r.endIndex - r.startIndex + 1) |->
                                       r.startIndex + i - 1]

\* a range cut at the last row of the buffer and starting past the first, its
\* rows mounted
C15_Witness ==
    /\ RangeDone
    /\ rangeCall[1].mounted # None
    /\ rangeCall[1].result[1].startIndex > 0
    /\ rangeCall[1].result[1].endIndex = rangeCall[1].args.totalItems - 1
    /\ Len(rangeCall[1].mounted[1]) > 1
    /\ CeilOf(rangeCall[1].args.scrollTop + rangeCall[1].args.containerHeight,
              rangeCall[1].args.itemHeight) > rangeCall[1].args.totalItems - 1

\* C16: endIndex - startIndex + 1, and so the number of rows mounted, is at
\* most ceil(containerHeight / itemHeight) + 2 * overscan + 2, whatever the
\* scroll offset and the number of loaded rows.
C16_MountedRowsBounded ==
    RangeDone =>
        LET a == rangeCall[1].args
            r == rangeCall[1].result[1]
            o == IF a.overscan = None THEN 5 ELSE a.overscan[1]
            limit == CeilOf(a.containerHeight, a.itemHeight) + 2 * o + 2
        IN  /\ r.endIndex - r.startIndex + 1 <= limit
            /\ rangeCall[1].mounted # None => Len(rangeCall[1].mounted[1]) <= limit

\* the bound met exactly, with more rows loaded than mounted
C16_Witness ==
    /\ RangeDone
    /\ rangeCall[1].mounted # None
    /\ LET a == rangeCall[1].args
           o == IF a.overscan = None THEN 5 ELSE a.overscan[1]
       IN  /\ Len(rangeCall[1].mounted[1])
                  = CeilOf(a.containerHeight, a.itemHeight) + 2 * o + 2
           /\ a.totalItems > Len(rangeCall[1].mounted[1])

-----------------------------------------------------------------------------
(* Properties of the store, under Spec *)

\* the filtered and sorted view of the current dataset under the current
\* criteria, computed without the cache
View ==
    sortLoans(filterLoans(allLoans, filterState), sortState.column, sortState.direction)

\* the first page of the view: its first min(pageSize, N) rows
FirstPage == slice(View, 0, paginationState.pageSize)

\* what a read of filteredAndSortedLoans.value returns now
ServedView == filteredAndSortedLoans(Cur).computedView.value

LoadStep ==
    \/ LoadInitialDataStart
    \/ FetchRejected
    \/ FetchNotOk
    \/ FetchOk
    \/ JsonRejected
    \/ JsonResolved

ResetStep ==
    \/ SetFilter
    \/ SetSortState
    \/ SetPageSize
    \/ ResetPagination

\* C1: in every reachable state loadedLoans is exactly the first
\* loadedRowsCount rows of the current filtered and sorted view.
C1_LoadedIsPrefixOfView ==
    loadedLoans = slice(View, 0, paginationState.loadedRowsCount)

\* C2: at every point the view returned through the cache equals the uncached
\* sortLoans(filterLoans(allLoans, filterState), column, direction) on the
\* current dataset and criteria.
C2_ServedViewIsUncachedView == ServedView = View

\* C3: after loadInitialData completes successfully the fetched dataset is in
\* allLoans and loadedLoans is the first min(pageSize, N) rows of its filtered
\* and sorted view, whatever actions preceded or overlapped the fetch.
C3_FirstPageAfterLoad ==
    last.op = "loadInitialData:done" =>
        /\ allLoans = last.arg[1]
        /\ loadedLoans = FirstPage

\* C4: right after setFilter or setSortState, loadedLoans is the first
\* min(pageSize, M) rows of the new view and loadedRowsCount is that number;
\* when the view is empty loadedLoans is empty, totalFilteredCount is 0 and
\* error stays null.
C4_FirstPageAfterCriteriaChange ==
    [][(SetFilter \/ SetSortState) =>
          /\ loadedLoans' = FirstPage'
          /\ paginationState'.loadedRowsCount = Min(paginationState'.pageSize, Len(View'))
          /\ View' = <<>> =>
                 /\ loadedLoans' = <<>>
                 /\ totalFilteredCount(Cur)' = 0
                 /\ error = None => error' = None]_vars

\* C5: on a fixed view of N rows, k calls of loadNextPage from the reset
\* state leave loadedRowsCount = min(k * pageSize, N), and a call made once
\* loadedRowsCount = N changes nothing.
C5_LoadedAfterCalls ==
    /\ [](calls # None =>
            paginationState.loadedRowsCount
                = Min(calls[1] * paginationState.pageSize, Len(View)))
    /\ [][(LoadNextPage /\ calls # None /\ paginationState.loadedRowsCount = Len(View))
              => UNCHANGED <<loadedLoans, paginationState>>]_vars

\* C6: after setPageSize(n): pageSize = n, currentPage = 1, loadedLoans is
\* rows [0, n) of the current view, loadedRowsCount is its length, totalPages
\* = ceil(totalFilteredCount / n), and the cache holds no entry from before
\* the call (at most the one for the current criteria, computed in the call).
C6_AfterSetPageSize ==
    last.op = "setPageSize" =>
        /\ paginationState.pageSize = last.arg[1]
        /\ paginationState.currentPage = 1
        /\ loadedLoans = slice(View, 0, last.arg[1])
        /\ paginationState.loadedRowsCount = Len(loadedLoans)
        /\ paginationState.totalPages = Ceil(totalFilteredCount(Cur), last.arg[1])
        /\ DOMAIN resultCache \subseteq
               {getCacheKey(filterState, sortState.column, sortState.direction)}
        /\ \A k \in DOMAIN resultCache : resultCache[k] = View

\* C7: loadedRowsCount does not decrease in a loadNextPage, loadInitialData or
\* clearCache step; it drops only in a setFilter, setSortState, setPageSize or
\* resetPagination step, which sets it to the size of the first page of the view.
C7_LoadedCountGrowsOrResets ==
    [][/\ (LoadNextPage \/ LoadStep \/ ClearCache) =>
              paginationState'.loadedRowsCount >= paginationState.loadedRowsCount
       /\ paginationState'.loadedRowsCount < paginationState.loadedRowsCount =>
              ResetStep
       /\ ResetStep => paginationState'.loadedRowsCount = Len(FirstPage')]_vars

\* loadInitialData calls suspended at an await
InFlight == pending.fetching + pending.parsing

\* C17: isLoading is true in every state in which a loadInitialData call has
\* started and not completed, whatever store actions or other loadInitialData
\* calls ran in between.
C17_LoadingWhileInFlight == InFlight > 0 => isLoading = TRUE

\* C18: under LiveSpec every loadInitialData call completes and isLoading
\* does not stay true; each completion (network rejection, non-OK response,
\* parse failure, success) leaves isLoading = false.
C18_LoadingEventuallyCleared ==
    /\ (InFlight > 0) ~> (InFlight = 0 /\ isLoading = FALSE)
    /\ (isLoading = TRUE) ~> (isLoading = FALSE)
    /\ [][InFlight' < InFlight => isLoading' = FALSE]_vars

\* a failed call and then a successful one, both complete
C18_Witness ==
    /\ failures > 0
    /\ last.op = "loadInitialData:done"
    /\ InFlight = 0
    /\ isLoading = FALSE

\* C19: a failing loadInitialData (fetch rejects, response not OK, body does
\* not parse) sets error to a non-empty message and leaves allLoans,
\* loadedLoans and paginationState as they were, so that with no dataset
\* loaded yet the loaded rows stay empty; every call sets error to null at
\* its start, and error is null after a successful call.
C19_FailureRecordedStateKept ==
    /\ [][failures' > failures =>
              /\ error' # None
              /\ error'[1] # ""
              /\ UNCHANGED <<allLoans, loadedLoans, paginationState>>]_vars
    /\ [][loads' > loads => error' = None]_vars
    /\ []((last.op = "loadInitialData:failed" /\ allLoans = <<>>) => loadedLoans = <<>>)
    /\ [](last.op = "loadInitialData:done" => error = None)

\* the store a successful call would have left had it run when the first call
\* of the run started, with the dataset `data`
AsIfFirst(data) ==
    loadNextPage(triggerAllLoans([slate[1].from EXCEPT !.allLoans = data]))

\* a successful call has completed after one or more failed ones, nothing but
\* reads of the view between them
Retried ==
    /\ slate # None
    /\ slate[1].failed > 0
    /\ last.op = "loadInitialData:done"

\* C20: after one or more failed loadInitialData calls a later successful call
\* leaves error null, isLoading false, the dataset stored and the first page
\* loaded, with the loaded rows and the pagination the same call would have
\* left in place of the first failed one.
C20_RetryFromCleanSlate ==
    Retried =>
        /\ error = None
        /\ isLoading = FALSE
        /\ allLoans = last.arg[1]
        /\ loadedLoans = FirstPage
        /\ loadedLoans = AsIfFirst(last.arg[1]).loadedLoans
        /\ paginationState = AsIfFirst(last.arg[1]).paginationState

-----------------------------------------------------------------------------
(* Properties of the order of effects inside one store action, under Spec *)

\* the positions of `trace` at which `what` was done
At(what) == {i \in DOMAIN trace : trace[i].e = what}

CriteriaActions == {"setFilter", "setSortState", "setPageSize"}

\* the last action was a setFilter, setSortState or setPageSize
AfterCriteriaAction == trace # <<>> /\ trace[1].e \in CriteriaActions

\* C21: in a setFilter, setSortState or setPageSize action the cache is
\* emptied before the view is computed or looked up, and the pagination
\* counters are reset before loadNextPage runs; an entry read during the
\* action was stored during it, after the cache was emptied, and the entries
\* present after the action are those stored during it.
C21_ClearBeforeRecompute ==
    AfterCriteriaAction =>
        /\ At("cache.clear") # {}
        /\ \A c \in At("compute") \cup At("cache.get") :
               \E k \in At("cache.clear") : k < c
        /\ \A l \in At("loadNextPage") : \E r \in At("reset") : r < l
        /\ \A g \in At("cache.get") :
               \E k \in At("cache.clear"), w \in At("cache.set") : k < w /\ w < g
        /\ Cardinality(DOMAIN resultCache) <= Cardinality(At("cache.set"))
        /\ \A key \in DOMAIN resultCache :
               /\ key = getCacheKey(filterState, sortState.column, sortState.direction)
               /\ resultCache[key] = computedView.value

\* a setFilter on a store whose cache held an entry: the cache emptied, the
\* view computed and stored again
C21_Witness ==
    /\ trace # <<>>
    /\ trace[1] = [e |-> "setFilter", n |-> 1]
    /\ At("compute") # {}
    /\ allLoans # <<>>
    /\ Cardinality(DOMAIN resultCache) = 1

-----------------------------------------------------------------------------
(* Properties of the size of the cache, under CacheSpec *)

-----------------------------------------------------------------------------
(* Properties of debounce, under DebounceSpec *)

\* C23: while each call of a debounced function comes less than wait after
\* the one before, func is not invoked and one timer is pending, due wait
\* after the last call with that call's arguments; once it has run, func has
\* been invoked exactly once, wait after the last call, with the arguments of
\* the last call.  The waits are 300 (search text) and 500 (amounts).
C23_DebounceCoalesces ==
    LET d == debounced[1]
    IN  /\ d.fn.wait \in {300, 500}
        /\ (d.calls > 0 /\ d.strict) =>
               /\ d.fn.timers # {} =>
                      /\ d.invoked = <<>>
                      /\ Cardinality(d.fn.timers) = 1
                      /\ \A t \in d.fn.timers :
                             t.left + d.since = d.fn.wait /\ t.payload = d.lastArgs[1]
               /\ d.fn.timers = {} =>
                      d.invoked = <<[args |-> d.lastArgs[1], since |-> d.fn.wait]>>

\* three keystrokes less than 300 ms apart, the last leaving the text `BO`:
\* one invocation, with `BO`
C23_Witness ==
    LET d == debounced[1]
    IN  /\ d.fn.wait = 300
        /\ d.calls = 3
        /\ d.strict
        /\ d.fn.timers = {}
        /\ d.invoked = <<[args |-> <<StrBO>>, since |-> 300]>>

-----------------------------------------------------------------------------
(* Properties of throttle, under ThrottleSpec *)

\* C24: two invocations of func through a throttled function are at least
\* limit apart; a call made while the window is open returns without invoking
\* func and func is never invoked for it later: every invocation runs for the
\* call being made, and every call either ran at once or never runs.
C24_ThrottleDropsInWindow ==
    LET h == throttled[1]
    IN  /\ \A i \in DOMAIN h.ran :
               /\ i = 1 => h.ran[i].gap = None
               /\ i > 1 => (h.ran[i].gap # None /\ h.ran[i].gap[1] >= h.fn.limit)
               /\ h.ran[i].call \notin h.dropped
               /\ \A j \in DOMAIN h.ran : h.ran[j].call = h.ran[i].call => j = i
        /\ {h.ran[i].call : i \in DOMAIN h.ran} \cup h.dropped = 1..h.made
        /\ h.fn.inThrottle =>
               \E t \in h.fn.timers : t.left + h.since = h.fn.limit
        /\ h.dropped # {} => h.ran # <<>>

\* a call that ran, two calls dropped in its window of 300 ms, and a call
\* that ran once the window had closed
C24_Witness ==
    LET h == throttled[1]
    IN  /\ h.fn.limit = 300
        /\ h.dropped = {2, 3}
        /\ Len(h.ran) = 2
        /\ h.ran[2] = [call |-> 4, gap |-> Some(300)]
        /\ h.fn.timers # {}

-----------------------------------------------------------------------------
(* Properties of the scroll handling, under ScrollSpec *)

\* C25: once the scroll events have ended and the throttle windows have
\* elapsed (no timer of throttledScrollHandler or of onScroll is pending), the
\* scrollTop ref of useVirtualScroll equals the container's scroll offset.
C25_LatestOffsetTracked ==
    (scroller[1].handler.timers = {} /\ scroller[1].onScroll.timers = {}) =>
        scroller[1].scrollTop = scroller[1].element.scrollTop

-----------------------------------------------------------------------------
(* Properties of hasMoreData, under PagingSpec *)

\* C26: in every reachable state hasMoreData is true exactly when
\* loadedRowsCount < totalFilteredCount, and when hasMoreData is false a call
\* of loadNextPage changes none of loadedLoans, currentPage, loadedRowsCount
\* and totalPages
C26_HasMoreData ==
    /\ hasMoreData(Cur) <=> (paginationState.loadedRowsCount < totalFilteredCount(Cur))
    /\ ~hasMoreData(Cur) =>
           LET after == loadNextPage(Cur)
           IN  /\ after.loadedLoans = loadedLoans
               /\ after.paginationState.currentPage = paginationState.currentPage
               /\ after.paginationState.loadedRowsCount = paginationState.loadedRowsCount
               /\ after.paginationState.totalPages = paginationState.totalPages

\* every row of a non-empty view is loaded, in more than one page, and the
\* last call was a loadNextPage
C26_Witness ==
    /\ last = Op("loadNextPage", None)
    /\ ~hasMoreData(Cur)
    /\ loadedLoans # <<>>
    /\ paginationState.loadedRowsCount = totalFilteredCount(Cur)
    /\ paginationState.currentPage > 1

-----------------------------------------------------------------------------
(* Properties of the column headers, under HeaderSpec *)

\* the three activations remembered are of one column
SameColumnThrice ==
    /\ Len(header[1].log) = 3
    /\ \A i \in 1..3 : header[1].log[i].column = header[1].log[1].column

\* C27: a click, Enter or Space on a header emits sort(column, next), next
\* following none -> asc -> desc -> none for the column currently sorted and
\* being 'asc' for any other column; the emitted state is the store's sort
\* state afterwards, and three consecutive activations of one column that
\* start from 'none' for that column end with direction 'none'
C27_HeaderSortCycle ==
    LET log == header[1].log
        cycle == [d \in Directions |->
                     IF d = "none" THEN "asc" ELSE IF d = "asc" THEN "desc" ELSE "none"]
    IN  /\ \A i \in 1..Len(log) :
               log[i].emitted =
                   [column |-> log[i].column,
                    direction |-> IF log[i].before.column = Some(log[i].column)
                                  THEN cycle[log[i].before.direction]
                                  ELSE "asc"]
        /\ log # <<>> =>
               sortState = [column |-> Some(log[Len(log)].column),
                            direction |-> log[Len(log)].emitted.direction]
        /\ (SameColumnThrice
              /\ (log[1].before.column # Some(log[1].column)
                    \/ log[1].before.direction = "none")) =>
               /\ <<log[1].emitted.direction, log[2].emitted.direction,
                     log[3].emitted.direction>> = <<"asc", "desc", "none">>
               /\ sortState.direction = "none"

\* a column activated by click, Enter and Space in turn while another column
\* was sorted descending
C27_Witness ==
    /\ SameColumnThrice
    /\ <<header[1].log[1].via, header[1].log[2].via, header[1].log[3].via>>
           = <<"click", "Enter", " ">>
    /\ header[1].log[1].before.column # Some(header[1].log[1].column)
    /\ header[1].log[1].before.direction = "desc"
    /\ sortState = [column |-> Some(header[1].log[1].column), direction |-> "none"]
    /\ loadedLoans # <<>>

-----------------------------------------------------------------------------
(* Properties of LoanFilters, under PanelSpec *)

\* C28: from a click on Clear All Filters until the user next edits a control,
\* the most recently emitted model is the all-default one, also when a
\* debounced search or amount update was pending at the click
C28_ClearAllStays ==
    panel[1].cleared => panel[1].emitted = Some(DefaultFilter)

\* C29: the model emitted when 500 ms have passed since the last amount input
\* carries the amounts last entered, whatever other controls emitted meanwhile
C29_AmountsEmitted ==
    panel[1].shot # None =>
        /\ panel[1].shot[1].minAmount = panel[1].typed.minAmount
        /\ panel[1].shot[1].maxAmount = panel[1].typed.maxAmount

-----------------------------------------------------------------------------
(* Properties of the pages loaded *)

\* C30: unless the view is fully loaded, the slice of the next loadNextPage
\* starts at loadedRowsCount (currentPage * pageSize = loadedRowsCount), and a
\* loadNextPage that takes effect adds exactly the rows
\* [loaded, loaded + pageSize) of the view and increments currentPage by one
C30_NextPageIsNextRows ==
    LET pageSize == paginationState.pageSize
        loaded == paginationState.loadedRowsCount
        after == loadNextPage(Cur)
        view == after.computedView.value
    IN  /\ hasMoreData(Cur) => paginationState.currentPage * pageSize = loaded
        /\ after.paginationState # paginationState =>
               /\ after.paginationState.currentPage = paginationState.currentPage + 1
               /\ after.loadedLoans =
                      slice(loadedLoans, 0, loaded) \o slice(view, loaded, loaded + pageSize)

-----------------------------------------------------------------------------
(* Properties of the load-more event, under TableSpec *)

\* C31: every load-more event is emitted with hasMoreData true and isLoading
\* false, with the container less than 100 from its bottom, with rows of the
\* view still to load and with no bulk load in flight
C31_LoadMoreGuarded ==
    \A i \in DOMAIN scroller[1].emitted :
        LET e == scroller[1].emitted[i]
        IN  /\ e.hasMoreData
            /\ ~e.isLoading
            /\ e.distance < 100
            /\ e.loaded < e.total
            /\ e.inFlight = 0

-----------------------------------------------------------------------------
(* Properties of totalPages *)

\* the store actions that write the pagination state
PagingOps ==
    {"loadNextPage", "setPageSize", "setFilter", "setSortState", "resetPagination",
     "loadInitialData:done"}

\* C32: after each of loadNextPage, setPageSize, setFilter, setSortState,
\* resetPagination and a successful loadInitialData, totalPages is
\* ceil(totalFilteredCount / pageSize), also when the view is empty
C32_TotalPagesDerived ==
    last.op \in PagingOps =>
        paginationState.totalPages
            = Ceil(totalFilteredCount(Cur), paginationState.pageSize)

-----------------------------------------------------------------------------
(* Properties of the cache key, under KeySpec *)

KeyOf(h) == getCacheKeyText(h.filters, h.sort.column, h.sort.direction)

\* C33: two states of the filter and the sort have the same cache key exactly
\* when their criteria, sort column and sort direction are equal field by
\* field, in whatever order the fields were set through setFilter
C33_KeyIffCriteria ==
    LET a == keyed[1].a
        b == keyed[1].b
    IN  /\ (KeyOf(a) = KeyOf(b)) <=>
               (AsFilterState(a.filters) = AsFilterState(b.filters) /\ a.sort = b.sort)
        /\ (KeyOf(a) = KeyOf(b)) <=>
               (getCacheKey(AsFilterState(a.filters), a.sort.column, a.sort.direction)
                  = getCacheKey(AsFilterState(b.filters), b.sort.column, b.sort.direction))

\* both bounds set, the minimum last in one state and the maximum last in the
\* other, and one key for the two
C33_Witness ==
    LET a == keyed[1].a
        b == keyed[1].b
    IN  /\ a.lastSet = "minAmount"
        /\ b.lastSet = "maxAmount"
        /\ Get(a.filters, "minAmount") = Some(150)
        /\ Get(a.filters, "maxAmount") = Some(15)
        /\ Get(a.filters, "search") = Some(StrQuote)
        /\ KeyOf(a) = KeyOf(b)

-----------------------------------------------------------------------------
(* Properties of useVirtualScroll, under VsSpec *)

\* C34: after scrollToTop the element's scrollTop and the tracked scrollTop
\* are 0, after scrollToIndex(i) both are i * itemHeight, after an element is
\* attached both are 0, after an onScroll event the tracked scrollTop is the
\* element's; with no element attached scrollToTop and scrollToIndex change
\* nothing
C34_ScrollTopTracksElement ==
    LET v == scroller[1]
        op == v.did.op
        target == IF op = "scrollToIndex" THEN v.did.arg * TableItemHeight ELSE 0
    IN  /\ (op \in {"scrollToTop", "scrollToIndex", "attach"} /\ v.scrollElement # None) =>
               (v.scrollElement[1].scrollTop = target /\ v.scrollTop = target)
        /\ op = "onScroll" => v.scrollTop = v.scrollElement[1].scrollTop
        /\ (op \in {"scrollToTop", "scrollToIndex"} /\ v.scrollElement = None) =>
               (v.scrollTop = v.did.before[1].scrollTop /\ v.did.before[1].scrollElement = None)

\* the store after n further calls of loadNextPage (useLoanStore.ts:102-125)
RECURSIVE loadNextPages(_, _)
loadNextPages(s, n) == IF n = 0 THEN s ELSE loadNextPages(loadNextPage(s), n - 1)

\* C35: in every reachable state where hasMoreData is true a call of
\* loadNextPage strictly increases the number of loaded rows, and
\* ceil(totalFilteredCount / pageSize) further calls leave loadedRowsCount
\* equal to totalFilteredCount with hasMoreData false: the store is never
\* stuck with hasMoreData true and loadNextPage loading nothing.
C35_LoadingTerminates ==
    LET total == totalFilteredCount(Cur)
        end == loadNextPages(Cur, Ceil(total, paginationState.pageSize))
    IN  /\ hasMoreData(Cur) => Len(loadNextPage(Cur).loadedLoans) > Len(loadedLoans)
        /\ end.paginationState.loadedRowsCount = total
        /\ ~hasMoreData(end)

\* C36: in every reachable state between store actions,
\* paginationState.loadedRowsCount is the length of loadedLoans.
C36_LoadedRowsCounted == paginationState.loadedRowsCount = Len(loadedLoans)

-----------------------------------------------------------------------------
(* The frame of the store's actions, under PagingSpec *)

\* the steps of loadInitialData (useLoanStore.ts:76-100)
LoadInitialDataStep ==
    \/ LoadInitialDataStart
    \/ FetchRejected
    \/ FetchNotOk
    \/ FetchOk
    \/ JsonRejected
    \/ JsonResolved

\* what a call of each action would leave alone in this state
FramesKept ==
    /\ \A newFilter \in FilterPartials :
           LET after == setFilter(Cur, newFilter)
           IN  /\ \A f \in DOMAIN filterState :
                      after.filterState[f] =
                          IF f \in DOMAIN newFilter THEN newFilter[f] ELSE filterState[f]
               /\ after.sortState = sortState
               /\ after.paginationState.pageSize = paginationState.pageSize
               /\ after.allLoans = allLoans
    /\ \A column \in SortColumns, direction \in Directions :
           LET after == setSortState(Cur, column, direction)
           IN  /\ after.filterState = filterState
               /\ after.paginationState.pageSize = paginationState.pageSize
               /\ after.allLoans = allLoans
    /\ \A newPageSize \in PageSizes :
           LET after == setPageSize(Cur, newPageSize)
           IN  /\ after.filterState = filterState
               /\ after.sortState = sortState
               /\ after.allLoans = allLoans
    /\ \A after \in {loadNextPage(Cur), resetPagination(Cur), clearCache(Cur),
                      filteredAndSortedLoans(Cur)} :
           after.allLoans = allLoans

\* C37: setFilter(partial) changes only the named filter fields and leaves
\* the other filter fields, the sort state, pageSize and the dataset unchanged;
\* setSortState leaves the filter state, pageSize and the dataset unchanged;
\* setPageSize leaves the filter state and the sort state unchanged; no action
\* other than loadInitialData changes allLoans, isLoading or error.
C37_Frame ==
    /\ []FramesKept
    /\ [][UNCHANGED <<allLoans, isLoading, error>> \/ LoadInitialDataStep]_vars

\* a setFilter that named minAmount alone has acted on a loaded store with a
\* status filter, a sort and a page size set before it: these are as they were
C37_Witness ==
    /\ last.op = "setFilter"
    /\ trace # <<>> /\ trace[1].e = "setFilter"
    /\ allLoans # <<>>
    /\ filterState.minAmount = Some(150)
    /\ filterState.status = StrApproved
    /\ sortState.column # None
    /\ paginationState.pageSize = SmallPageSize

-----------------------------------------------------------------------------
(* The window and the viewport, under RangeSpec *)

\* row i of height itemHeight has a pixel in the viewport
\* [scrollTop, scrollTop + containerHeight)
Intersects(i, a) ==
    /\ i * a.itemHeight < a.scrollTop + a.containerHeight
    /\ (i + 1) * a.itemHeight > a.scrollTop

\* C38: for every scroll offset in [0, totalItems * itemHeight), every row
\* 0 <= i < totalItems that intersects the viewport lies in the computed
\* window: startIndex <= i <= endIndex.
C38_WindowCoversViewport ==
    (rangeCall # None /\ rangeCall[1].result # None) =>
        LET a == rangeCall[1].args
            r == rangeCall[1].result[1]
        IN  a.scrollTop < a.totalItems * a.itemHeight =>
                \A i \in 0..(a.totalItems - 1) :
                    Intersects(i, a) => (r.startIndex <= i /\ i <= r.endIndex)

\* a window computed for an offset inside a row, with rows above it and rows
\* below it left out, its first row cut by the top of the viewport and the
\* last row of the viewport inside it
C38_Witness ==
    /\ rangeCall # None
    /\ rangeCall[1].result # None
    /\ LET a == rangeCall[1].args
           r == rangeCall[1].result[1]
       IN  /\ a.scrollTop < a.totalItems * a.itemHeight
           /\ a.scrollTop % a.itemHeight # 0
           /\ r.startIndex > 0
           /\ r.endIndex < a.totalItems - 1
           /\ Intersects(r.startIndex, a)
           /\ Intersects(r.endIndex - 1, a)
           /\ r.endIndex - 1 > r.startIndex

-----------------------------------------------------------------------------
(* Properties of the select event, under RowSpec *)

\* C39: every select event a row emits, on a click, on Enter and on Space,
\* carries the loan of that row, and the row-select event VirtualTable forwards
\* identifies the loan.
C39_SelectCarriesLoan ==
    \A k \in 1..Len(row[1].log) :
        LET e == row[1].log[k]
            loan == row[1].items[e.from + 1]
        IN  /\ e.select = loan
            /\ e.rowSelect = loan
            /\ e.notification.id = Some(loan.id)

-----------------------------------------------------------------------------
(* The entries of the cache, under PagingSpec *)

\* the key of the current criteria
currentKey == getCacheKey(filterState, sortState.column, sortState.direction)

\* the getter found the cache over its cap and emptied it
\* (useLoanStore.ts:60-62)
Evicted ==
    \E i \in DOMAIN trace :
        /\ i < Len(trace)
        /\ trace[i].e = "compute"
        /\ trace[i + 1].e = "cache.clear"

\* the key of the criteria of a store
keyOf(s) == getCacheKey(s.filterState, s.sortState.column, s.sortState.direction)

\* the events of an action empty the cache before any entry is stored
ClearsFirst(events) ==
    \E k \in DOMAIN events :
        /\ events[k].e = "cache.clear"
        /\ \A c \in DOMAIN events : events[c].e = "cache.set" => k < c

\* what a call of each action would do to the key in this state
KeyKept ==
    /\ \A after \in {loadNextPage(Cur), resetPagination(Cur), clearCache(Cur),
                      filteredAndSortedLoans(Cur)}
                     \cup {setPageSize(Cur, newPageSize) : newPageSize \in PageSizes}
                     \cup {loadNextPage(triggerAllLoans([Cur EXCEPT !.allLoans = data])) :
                              data \in Datasets} :
           keyOf(after) = currentKey
    /\ \A after \in {setFilter(Cur, newFilter) : newFilter \in FilterPartials}
                     \cup {setSortState(Cur, column, direction) :
                              column \in SortColumns, direction \in Directions} :
           ClearsFirst(after.trace)

\* C40: in every reachable state the result cache holds at most one entry,
\* the one of the current (filter, sort) criteria; the key changes only inside
\* setFilter and setSortState, which empty the cache first, so the branch that
\* empties a cache of more than 100 entries is never taken.
C40_OneEntry ==
    /\ Cardinality(DOMAIN resultCache) <= 1
    /\ DOMAIN resultCache \subseteq {currentKey}
    /\ ~Evicted
    /\ \A i \in At("compute") : trace[i].n = 0
    /\ KeyKept

\* a setSortState on a loaded store whose cache held the entry of the criteria
\* before it: the cache holds one entry again, under a new key
C40_Witness ==
    /\ last.op = "setSortState"
    /\ trace # <<>>
    /\ trace[1] = [e |-> "setSortState", n |-> 1]
    /\ At("cache.set") # {}
    /\ allLoans # <<>>
    /\ sortState.direction = "desc"
    /\ Cardinality(DOMAIN resultCache) = 1


====
